---- MODULE Spec2Model ----
(***************************************************************************)
(* translate-bot (src/main.py): the settings store (SettingsManager), the  *)
(* language resolver (resolve_languages) and the message router            *)
(* (on_message) with the slash-command handlers, as a state machine.       *)
(*                                                                         *)
(* Python strings that the code inspects character by character (lower(),  *)
(* regular expressions) are sequences of code points; strings that are     *)
(* only compared as a whole (provider, mode, dict keys) are TLA+ strings.  *)
(***************************************************************************)
EXTENDS Integers, Sequences, FiniteSets, TLC

-----------------------------------------------------------------------------
(* Bounds of the model *)

\* the admin stores at most this many mirror pairs per server
MaxPairs == 2
\* at most this many durable writes fail in one run
MaxWriteFailures == 1

-----------------------------------------------------------------------------
(* Strings *)

S_auto == <<97, 117, 116, 111>>
S_auto_bidir == <<97, 117, 116, 111, 45, 98, 105, 100, 105, 114>>
S_en == <<101, 110>>
S_zh == <<122, 104>>
S_fr == <<102, 114>>
S_embed == <<101, 109, 98, 101, 100>>
S_text == <<116, 101, 120, 116>>
S_webhook == <<119, 101, 98, 104, 111, 111, 107>>
\* inputs a user may type
S_EMBED == <<69, 77, 66, 69, 68>>
S_english == <<101, 110, 103, 108, 105, 115, 104>>
S_ZH == <<90, 72>>
S_popup == <<112, 111, 112, 117, 112>>
\* "en" followed by a line feed
S_en_nl == <<101, 110, 10>>
\* texts of messages: "hi" and "你好"
T_hi == <<104, 105>>
T_nihao == <<20320, 22909>>

\* str.lower() on the ASCII letters (the inputs hold no other cased letter)
lower(s) == [i \in 1..Len(s) |-> IF s[i] \in 65..90 THEN s[i] + 32 ELSE s[i]]

\* str(id) for the small ids of the model: one decimal digit
str(n) == <<48 + n>>

\* Optional[str]: None is the empty tuple, a present value s is <<s>>
None == <<>>
Some(s) == <<s>>
\* Python's `a or b` on an Optional[str] a: None and "" are falsy
Or(a, b) == IF a = None \/ a[1] = <<>> THEN b ELSE a[1]

-----------------------------------------------------------------------------
(* Module constants *)

PROVIDERS == {"deepseek", "openai", "google", "gemini"}
MODES == {"auto", "mirror", "command"}
DISPLAY_MODES == {S_embed, S_text, S_webhook}
RESERVED_LANGUAGE_CHOICES == {S_auto, S_auto_bidir}

DEFAULT_CONFIG ==
  [default_provider |-> "deepseek",
   default_mode |-> "auto",
   default_source_language |-> S_auto,
   default_target_language |-> S_auto_bidir,
   bidir_languages |-> <<S_en, S_zh>>,
   fallback_target_language |-> S_en,
   default_display_mode |-> S_webhook]

\* {**a, **b} and a.update(b): the keys of b win
DictMerge(a, b) ==
  [k \in (DOMAIN a) \cup (DOMAIN b) |-> IF k \in DOMAIN b THEN b[k] ELSE a[k]]

\* d[k] = v on a dict d
DictSet(d, k, v) ==
  [x \in (DOMAIN d) \cup {k} |-> IF x = k THEN v ELSE d[x]]

\* d.pop(k, None)
DictPop(d, k) == [x \in (DOMAIN d) \ {k} |-> d[x]]

EmptyDict == <<>>

\* load_config: config.json (user_config, or absent = the empty dict) merged
\* over DEFAULT_CONFIG
load_config(user_config) == DictMerge(DEFAULT_CONFIG, user_config)

-----------------------------------------------------------------------------
(* SettingsManager: the in-memory operations *)

GuildFields ==
  {"provider", "mode", "source_language", "target_language", "display_mode",
   "auto_translate_channels", "mirror_pairs"}

default_settings(cfg) ==
  [provider |-> cfg.default_provider,
   mode |-> cfg.default_mode,
   source_language |-> cfg.default_source_language,
   target_language |-> cfg.default_target_language,
   display_mode |-> cfg.default_display_mode,
   auto_translate_channels |-> <<>>,
   mirror_pairs |-> <<>>]

\* if key not in self._settings: self._settings[key] = self._default_settings()
materialize(S, cfg, key) ==
  IF key \in DOMAIN S THEN S ELSE DictSet(S, key, default_settings(cfg))

\* GuildSettings(**data): the dataclass constructor takes exactly its seven
\* fields; a missing or an unexpected keyword raises TypeError
GuildSettings(data) ==
  IF DOMAIN data = GuildFields
  THEN [ok |-> TRUE, value |-> data]
  ELSE [ok |-> FALSE, value |-> "TypeError"]

\* get_settings, the value returned (S already materialized)
get_settings_return(S, cfg, key) ==
  GuildSettings(DictMerge(default_settings(cfg), S[key]))

\* mutant: the record is rebuilt from the defaults and the updates
update_settings_mem_resets(S, cfg, key, updates) ==
  DictSet(S, key, DictMerge(default_settings(cfg), updates))

\* update_settings, in memory
update_settings_mem(S, cfg, key, updates) ==
  LET S1 == materialize(S, cfg, key)
  IN  DictSet(S1, key, DictMerge(S1[key], updates))

Pair(source, target) ==
  [source_channel_id |-> source, target_channel_id |-> target]

HasPair(pairs, source, target) ==
  \E i \in 1..Len(pairs) :
     pairs[i].source_channel_id = source /\ pairs[i].target_channel_id = target

\* dict.setdefault(k, [])
SetDefault(d, k) == IF k \in DOMAIN d THEN d ELSE DictSet(d, k, <<>>)

\* mutant: the pair is appended without the test for a stored one
add_mirror_pair_mem_appends(S, cfg, key, source, target) ==
  LET S1 == materialize(S, cfg, key)
      rec == SetDefault(S1[key], "mirror_pairs")
  IN  DictSet(S1, key,
              DictSet(rec, "mirror_pairs",
                      Append(rec.mirror_pairs, Pair(source, target))))

\* add_mirror_pair, in memory
add_mirror_pair_mem(S, cfg, key, source, target) ==
  LET S1 == materialize(S, cfg, key)
      rec == SetDefault(S1[key], "mirror_pairs")
      pairs == rec.mirror_pairs
  IN  IF ~HasPair(pairs, source, target)
      THEN DictSet(S1, key,
                   DictSet(rec, "mirror_pairs", Append(pairs, Pair(source, target))))
      ELSE DictSet(S1, key, rec)

\* [p for p in pairs if not (...)]
RECURSIVE FilterPairs(_, _, _)
FilterPairs(pairs, source, target) ==
  IF pairs = <<>> THEN <<>>
  ELSE LET p == Head(pairs)
           rest == FilterPairs(Tail(pairs), source, target)
       IN  IF p.source_channel_id = source /\ p.target_channel_id = target
           THEN rest ELSE <<p>> \o rest

\* remove_mirror_pair, in memory (the caller has checked key in self._settings)
remove_mirror_pair_mem(S, key, source, target) ==
  LET pairs == IF "mirror_pairs" \in DOMAIN S[key] THEN S[key].mirror_pairs ELSE <<>>
  IN  DictSet(S, key,
              DictSet(S[key], "mirror_pairs", FilterPairs(pairs, source, target)))

InList(x, xs) == \E i \in 1..Len(xs) : xs[i] = x

\* list.remove(x): removes the first occurrence
RECURSIVE ListRemove(_, _)
ListRemove(xs, x) ==
  IF xs = <<>> THEN <<>>
  ELSE IF Head(xs) = x THEN Tail(xs) ELSE <<Head(xs)>> \o ListRemove(Tail(xs), x)

\* mutant: the branch that disables a channel is missing
set_auto_channel_mem_no_disable(S, cfg, key, channel_id, enabled) ==
  LET S1 == materialize(S, cfg, key)
      rec == SetDefault(S1[key], "auto_translate_channels")
      channels == rec.auto_translate_channels
      new == IF enabled /\ ~InList(channel_id, channels)
             THEN Append(channels, channel_id) ELSE channels
  IN  DictSet(S1, key, DictSet(rec, "auto_translate_channels", new))

\* set_auto_channel, in memory
set_auto_channel_mem(S, cfg, key, channel_id, enabled) ==
  LET S1 == materialize(S, cfg, key)
      rec == SetDefault(S1[key], "auto_translate_channels")
      channels == rec.auto_translate_channels
      new == IF enabled
             THEN (IF ~InList(channel_id, channels)
                   THEN Append(channels, channel_id) ELSE channels)
             ELSE (IF InList(channel_id, channels)
                   THEN ListRemove(channels, channel_id) ELSE channels)
  IN  DictSet(S1, key, DictSet(rec, "auto_translate_channels", new))

\* dict.get(k) / dict.get(k, {})
DictGet(d, k, dflt) == IF k \in DOMAIN d THEN d[k] ELSE dflt

\* get_user_settings: the UserSettings returned
get_user_settings_return(U, gid, uid) ==
  LET data == DictGet(DictGet(U, gid, EmptyDict), uid, EmptyDict)
  IN  [source_language |->
         IF "source_language" \in DOMAIN data THEN Some(data.source_language) ELSE None,
       target_language |->
         IF "target_language" \in DOMAIN data THEN Some(data.target_language) ELSE None]

\* update_user_settings, in memory
update_user_settings_mem(U, gid, uid, updates) ==
  LET U1 == IF gid \in DOMAIN U THEN U ELSE DictSet(U, gid, EmptyDict)
      G1 == IF uid \in DOMAIN U1[gid] THEN U1[gid] ELSE DictSet(U1[gid], uid, EmptyDict)
  IN  DictSet(U1, gid, DictSet(G1, uid, DictMerge(G1[uid], updates)))

\* clear_user_settings: whether there is a record to remove
has_user_record(U, gid, uid) == gid \in DOMAIN U /\ uid \in DOMAIN U[gid]

\* mutant: the server's whole dict of users is dropped
clear_user_settings_mem_drops_server(U, gid, uid) ==
  IF has_user_record(U, gid, uid) THEN DictPop(U, gid) ELSE U

\* clear_user_settings, in memory
clear_user_settings_mem(U, gid, uid) ==
  IF has_user_record(U, gid, uid) THEN DictSet(U, gid, DictPop(U[gid], uid)) ELSE U

-----------------------------------------------------------------------------
(* Language resolution *)

\* CJK_RE.search(text): some character in U+4E00..U+9FFF
CJK_search(text) == \E i \in 1..Len(text) : text[i] \in 19968..40959

\* mutant: the two directions are exchanged
detect_bidir_language_swapped(text, languages) ==
  IF CJK_search(text) THEN <<S_en, S_zh>> ELSE <<S_zh, S_en>>

detect_bidir_language(text, languages) ==
  IF CJK_search(text) THEN <<S_zh, S_en>> ELSE <<S_en, S_zh>>

\* detect_language: `found` is what langdetect's detect(text) yields, None
\* when it raises LangDetectException
detect_language(found) == IF found = None THEN None ELSE Some(lower(found[1]))

\* `if detected:` on an Optional[str]
Truthy(opt) == opt # None /\ opt[1] # <<>>

\* mutant: with target 'auto' a detected language replaces any source
resolve_languages_detected_first(settings, user_settings, text, cfg, found) ==
  LET source0 == lower(Or(user_settings.source_language, settings.source_language))
      target0 == lower(Or(user_settings.target_language, settings.target_language))
      called == source0 = S_auto \/ target0 = S_auto
      detected == IF called THEN detect_language(found) ELSE None
      bidir == detect_bidir_language(text, cfg.bidir_languages)
  IN  IF target0 = S_auto_bidir
      THEN [source |-> IF Truthy(detected) THEN detected[1] ELSE bidir[1],
            target |-> bidir[2], called |-> called]
      ELSE IF target0 = S_auto
      THEN [source |-> IF Truthy(detected) THEN detected[1] ELSE source0,
            target |-> lower(cfg.fallback_target_language), called |-> called]
      ELSE [source |-> IF source0 = S_auto /\ Truthy(detected)
                       THEN detected[1] ELSE source0,
            target |-> target0, called |-> called]

\* mutant: the server's selector is taken before the user's
resolve_languages_server_first(settings, user_settings, text, cfg, found) ==
  LET source0 == lower(Or(Some(settings.source_language),
                          user_settings.source_language))
      target0 == lower(Or(Some(settings.target_language),
                          user_settings.target_language))
      called == source0 = S_auto \/ target0 = S_auto
      detected == IF called THEN detect_language(found) ELSE None
      bidir == detect_bidir_language(text, cfg.bidir_languages)
  IN  IF target0 = S_auto_bidir
      THEN [source |-> IF Truthy(detected) THEN detected[1] ELSE bidir[1],
            target |-> bidir[2], called |-> called]
      ELSE IF target0 = S_auto
      THEN [source |-> IF Truthy(detected) /\ source0 = S_auto
                       THEN detected[1] ELSE source0,
            target |-> lower(cfg.fallback_target_language), called |-> called]
      ELSE [source |-> IF source0 = S_auto /\ Truthy(detected)
                       THEN detected[1] ELSE source0,
            target |-> target0, called |-> called]

\* mutant: the target selector auto is returned as it is, without the fallback
resolve_languages_keeps_auto(settings, user_settings, text, cfg, found) ==
  LET source0 == lower(Or(user_settings.source_language, settings.source_language))
      target0 == lower(Or(user_settings.target_language, settings.target_language))
      called == source0 = S_auto \/ target0 = S_auto
      detected == IF called THEN detect_language(found) ELSE None
      bidir == detect_bidir_language(text, cfg.bidir_languages)
  IN  IF target0 = S_auto_bidir
      THEN [source |-> IF Truthy(detected) THEN detected[1] ELSE bidir[1],
            target |-> bidir[2], called |-> called]
      ELSE IF target0 = S_auto
      THEN [source |-> IF Truthy(detected) /\ source0 = S_auto
                       THEN detected[1] ELSE source0,
            target |-> target0, called |-> called]
      ELSE [source |-> IF source0 = S_auto /\ Truthy(detected)
                       THEN detected[1] ELSE source0,
            target |-> target0, called |-> called]

\* resolve_languages; `found` is the detection capability's answer for the
\* text, used only when the code calls detect_language (field `called`)
resolve_languages(settings, user_settings, text, cfg, found) ==
  LET source0 == lower(Or(user_settings.source_language, settings.source_language))
      target0 == lower(Or(user_settings.target_language, settings.target_language))
      called == source0 = S_auto \/ target0 = S_auto
      detected == IF called THEN detect_language(found) ELSE None
      bidir == detect_bidir_language(text, cfg.bidir_languages)
  IN  IF target0 = S_auto_bidir
      THEN [source |-> IF Truthy(detected) THEN detected[1] ELSE bidir[1],
            target |-> bidir[2], called |-> called]
      ELSE IF target0 = S_auto
      THEN [source |-> IF Truthy(detected) /\ source0 = S_auto
                       THEN detected[1] ELSE source0,
            target |-> lower(cfg.fallback_target_language), called |-> called]
      ELSE [source |-> IF source0 = S_auto /\ Truthy(detected)
                       THEN detected[1] ELSE source0,
            target |-> target0, called |-> called]

\* LANGUAGE_CODE_RE.match(code): ^[a-z]{2,3}(-[a-z]{2})?$ ; `$` also matches
\* just before a final newline
IsLowerLetter(c) == c \in 97..122

MatchesCode(code) ==
  LET n == Len(code)
      AllLetters(a, b) == \A i \in a..b : IsLowerLetter(code[i])
      Exact(m) ==
        \/ m \in {2, 3} /\ AllLetters(1, m)
        \/ m \in {5, 6} /\ AllLetters(1, m - 3) /\ code[m - 2] = 45
             /\ AllLetters(m - 1, m)
  IN  \/ Exact(n)
      \/ n >= 1 /\ code[n] = 10 /\ Exact(n - 1)

is_valid_language(code0) ==
  LET code == lower(code0)
  IN  IF code \in RESERVED_LANGUAGE_CHOICES THEN TRUE ELSE MatchesCode(code)

-----------------------------------------------------------------------------
(* Delivery *)

\* send_translation. is_text: isinstance(channel, discord.TextChannel);
\* net: how the Discord calls it makes end: "ok", "Forbidden"
\* (discord.Forbidden) or "error" (any other exception).
\* Returns "posted", "nothing" (returned without posting) or "raised".
send_translation(display_mode, is_text, net) ==
  IF display_mode = S_webhook /\ is_text /\ net = "ok" THEN "posted"
  ELSE IF display_mode = S_webhook /\ is_text /\ net = "error" THEN "raised"
  ELSE IF display_mode = S_embed \/ display_mode = S_text
       THEN (IF net = "ok" THEN "posted" ELSE "raised")
       ELSE "nothing"

-----------------------------------------------------------------------------
(* State *)

VARIABLES
  config,          \* the module global `config` (load_config())
  settings,        \* SettingsManager._settings
  user_settings,   \* SettingsManager._user_settings
  settings_file,   \* data/guild_settings.json: [valid, data, failed]
  user_file,       \* data/user_settings.json:  [valid, data, failed]
  lock,            \* SettingsManager._lock: 0 when free, else the holding task
  translator,      \* bot.translator is set (setup_hook has run)
  write_failures,  \* durable writes that failed so far
  auto_calls,      \* history: the last two set_auto_channel calls, each with
                   \* the server's channel list before it
  task             \* the event-handling tasks: task[t] is the frame of task t

vars == <<config, settings, user_settings, settings_file, user_file, lock,
          translator, write_failures, auto_calls, task>>

NoCall == [fn |-> "none"]

\* the frame of a task that handles event e, before its first step
Frame(e) ==
  [pc |-> "idle", ev |-> e, call |-> NoCall,
   gs |-> EmptyDict,        \* `settings`: the GuildSettings read
   alias |-> FALSE,         \* gs.mirror_pairs is the stored list object itself
   us |-> EmptyDict,        \* `user_settings`: the UserSettings read
   i |-> 0,                 \* position of `for pair in settings.mirror_pairs`
   source |-> <<>>, target |-> <<>>,
   detects |-> 0,           \* calls of detect_language for this event
   translations |-> 0,      \* calls of bot.translator.translate
   translate_errors |-> 0,  \* those that raised
   posted |-> <<>>,         \* channels a translation was posted to, in order
   posted_after |-> {},     \* the handlers that had posted when this one first did
   deleted |-> FALSE,       \* message.delete() succeeded
   replies |-> 0,           \* interaction responses sent
   reply |-> "",            \* the response being sent / sent last
   raised |-> ""]           \* the exception the handler ended with

NoEvent == [kind |-> "none"]

\* a handler that has returned or raised: its locals are gone
Finish(fr) ==
  [fr EXCEPT !.pc = "done", !.call = NoCall, !.gs = EmptyDict, !.alias = FALSE,
             !.us = EmptyDict, !.i = 0, !.source = <<>>, !.target = <<>>]

Raise(fr, exc) == Finish([fr EXCEPT !.raised = exc])

\* await interaction.response.send_message(...)
Reply(fr, msg) == [fr EXCEPT !.pc = "respond", !.reply = msg]

\* await settings_manager.<fn>(...); the handler goes on at `ret`
Call(fr, c, ret) == [fr EXCEPT !.pc = "acquire", !.call = c @@ [ret |-> ret]]

Key(e) == str(e.guild)

-----------------------------------------------------------------------------
(* Events *)

\* guild 0: the event comes from outside a server (message.guild is None)
Message(guild, channel, user, bot, content) ==
  [kind |-> "message", guild |-> guild, channel |-> channel, user |-> user,
   bot |-> bot, content |-> content]

\* admin: is_admin's perms.manage_guild or perms.administrator
Command(name, guild, channel, user, admin, args) ==
  [kind |-> name, guild |-> guild, channel |-> channel, user |-> user,
   admin |-> admin, args |-> args]

is_admin(e) == e.guild # 0 /\ e.admin

-----------------------------------------------------------------------------
(* Command handlers, up to their first await *)

ServerOnly(e) == Reply(Frame(e), "This command can only be used in a server.")
NeedManage(e) == Reply(Frame(e), "You need Manage Server to do that.")

set_mode(e) ==
  IF e.guild = 0 THEN ServerOnly(e)
  ELSE IF ~is_admin(e) THEN NeedManage(e)
  ELSE IF e.args.mode \notin MODES THEN Reply(Frame(e), "Invalid mode.")
  ELSE Call(Frame(e),
            [fn |-> "update_settings", key |-> Key(e),
             updates |-> [mode |-> e.args.mode]], "confirm")

set_provider(e) ==
  IF e.guild = 0 THEN ServerOnly(e)
  ELSE IF ~is_admin(e) THEN NeedManage(e)
  ELSE IF e.args.provider \notin PROVIDERS THEN Reply(Frame(e), "Invalid provider.")
  ELSE Call(Frame(e),
            [fn |-> "update_settings", key |-> Key(e),
             updates |-> [provider |-> e.args.provider]], "confirm")

set_languages(e) ==
  IF e.guild = 0 THEN ServerOnly(e)
  ELSE IF ~is_admin(e) THEN NeedManage(e)
  ELSE LET source == lower(e.args.source)
           target == lower(e.args.target)
       IN  IF ~is_valid_language(source) \/ ~is_valid_language(target)
           THEN Reply(Frame(e), "Invalid languages.")
           ELSE Call(Frame(e),
                     [fn |-> "update_settings", key |-> Key(e),
                      updates |-> [source_language |-> source,
                                   target_language |-> target]], "confirm")

set_user_languages(e) ==
  IF e.guild = 0 THEN ServerOnly(e)
  ELSE LET source == lower(e.args.source)
           target == lower(e.args.target)
       IN  IF ~is_valid_language(source) \/ ~is_valid_language(target)
           THEN Reply(Frame(e), "Invalid languages.")
           ELSE Call(Frame(e),
                     [fn |-> "update_user_settings", key |-> Key(e),
                      uid |-> str(e.user),
                      updates |-> [source_language |-> source,
                                   target_language |-> target]], "confirm")

clear_user_languages(e) ==
  IF e.guild = 0 THEN ServerOnly(e)
  ELSE Call(Frame(e),
            [fn |-> "clear_user_settings", key |-> Key(e), uid |-> str(e.user)],
            "confirm")

my_languages(e) ==
  IF e.guild = 0 THEN ServerOnly(e)
  ELSE Call(Frame(e),
            [fn |-> "get_user_settings", key |-> Key(e), uid |-> str(e.user)],
            "confirm")

\* e.channel = 0: interaction.channel is None
set_auto_channel(e) ==
  IF e.guild = 0 \/ e.channel = 0 THEN ServerOnly(e)
  ELSE IF ~is_admin(e) THEN NeedManage(e)
  ELSE Call(Frame(e),
            [fn |-> "set_auto_channel", key |-> Key(e),
             channel_id |-> e.channel, enabled |-> e.args.enabled], "confirm")

set_mirror(e) ==
  IF e.guild = 0 THEN ServerOnly(e)
  ELSE IF ~is_admin(e) THEN NeedManage(e)
  ELSE Call(Frame(e),
            [fn |-> "add_mirror_pair", key |-> Key(e),
             source |-> e.args.source_channel, target |-> e.args.target_channel],
            "confirm")

remove_mirror(e) ==
  IF e.guild = 0 THEN ServerOnly(e)
  ELSE IF ~is_admin(e) THEN NeedManage(e)
  ELSE Call(Frame(e),
            [fn |-> "remove_mirror_pair", key |-> Key(e),
             source |-> e.args.source_channel, target |-> e.args.target_channel],
            "confirm")

set_display_mode(e) ==
  IF e.guild = 0 THEN ServerOnly(e)
  ELSE IF ~is_admin(e) THEN NeedManage(e)
  ELSE LET mode == lower(e.args.mode)
       IN  IF mode \notin DISPLAY_MODES
           THEN Reply(Frame(e), "Invalid display mode.")
           ELSE Call(Frame(e),
                     [fn |-> "update_settings", key |-> Key(e),
                      updates |-> [display_mode |-> mode]], "confirm")

set_embeds(e) ==
  IF e.guild = 0 THEN ServerOnly(e)
  ELSE IF ~is_admin(e) THEN NeedManage(e)
  ELSE Call(Frame(e),
            [fn |-> "update_settings", key |-> Key(e),
             updates |-> [use_embeds |-> e.args.enabled]], "confirm")

status(e) ==
  IF e.guild = 0 THEN ServerOnly(e)
  ELSE Call(Frame(e), [fn |-> "get_settings", key |-> Key(e)], "status_user")

\* mutant: only messages from outside a server are ignored
on_message_handles_bots(e) ==
  IF e.guild = 0 THEN Finish(Frame(e))
  ELSE Call(Frame(e), [fn |-> "get_settings", key |-> Key(e)], "om_user")

\* translate_command, lines 500-503
translate(e) ==
  IF e.guild = 0 THEN ServerOnly(e)
  ELSE Call(Frame(e), [fn |-> "get_settings", key |-> Key(e)], "translate_user")

\* on_message, lines 440-443
on_message(e) ==
  IF e.bot \/ e.guild = 0 THEN Finish(Frame(e))
  ELSE Call(Frame(e), [fn |-> "get_settings", key |-> Key(e)], "om_user")

\* the dispatch of an event to its handler
Handle(e) ==
  CASE e.kind = "message" -> on_message(e)
    [] e.kind = "set_mode" -> set_mode(e)
    [] e.kind = "set_provider" -> set_provider(e)
    [] e.kind = "set_languages" -> set_languages(e)
    [] e.kind = "set_user_languages" -> set_user_languages(e)
    [] e.kind = "clear_user_languages" -> clear_user_languages(e)
    [] e.kind = "my_languages" -> my_languages(e)
    [] e.kind = "set_auto_channel" -> set_auto_channel(e)
    [] e.kind = "set_mirror" -> set_mirror(e)
    [] e.kind = "remove_mirror" -> remove_mirror(e)
    [] e.kind = "set_display_mode" -> set_display_mode(e)
    [] e.kind = "set_embeds" -> set_embeds(e)
    [] e.kind = "status" -> status(e)
    [] e.kind = "translate" -> translate(e)

-----------------------------------------------------------------------------
(* A settings operation: async with self._lock: mutate, save, return *)

\* what the body of operation c does to the two in-memory tables, and the
\* table it then saves ("none": it returns without a save)
\* mutant: get_settings does not write the default it materializes
Effect_get_unsaved(c, S, U, cfg) ==
  CASE c.fn = "get_settings" ->
         [S |-> materialize(S, cfg, c.key), U |-> U,
          save |-> "none"]
    [] c.fn = "update_settings" ->
         [S |-> update_settings_mem(S, cfg, c.key, c.updates), U |-> U,
          save |-> "settings"]
    [] c.fn = "get_user_settings" ->
         [S |-> S, U |-> U, save |-> "none"]
    [] c.fn = "update_user_settings" ->
         [S |-> S, U |-> update_user_settings_mem(U, c.key, c.uid, c.updates),
          save |-> "user"]
    [] c.fn = "clear_user_settings" ->
         [S |-> S, U |-> clear_user_settings_mem(U, c.key, c.uid),
          save |-> IF has_user_record(U, c.key, c.uid) THEN "user" ELSE "none"]
    [] c.fn = "add_mirror_pair" ->
         [S |-> add_mirror_pair_mem(S, cfg, c.key, c.source, c.target), U |-> U,
          save |-> "settings"]
    [] c.fn = "remove_mirror_pair" ->
         IF c.key \notin DOMAIN S
         THEN [S |-> S, U |-> U, save |-> "none"]
         ELSE [S |-> remove_mirror_pair_mem(S, c.key, c.source, c.target), U |-> U,
               save |-> "settings"]
    [] c.fn = "set_auto_channel" ->
         [S |-> set_auto_channel_mem(S, cfg, c.key, c.channel_id, c.enabled),
          U |-> U, save |-> "settings"]

Effect(c, S, U, cfg) ==
  CASE c.fn = "get_settings" ->
         [S |-> materialize(S, cfg, c.key), U |-> U,
          save |-> IF c.key \in DOMAIN S THEN "none" ELSE "settings"]
    [] c.fn = "update_settings" ->
         [S |-> update_settings_mem(S, cfg, c.key, c.updates), U |-> U,
          save |-> "settings"]
    [] c.fn = "get_user_settings" ->
         [S |-> S, U |-> U, save |-> "none"]
    [] c.fn = "update_user_settings" ->
         [S |-> S, U |-> update_user_settings_mem(U, c.key, c.uid, c.updates),
          save |-> "user"]
    [] c.fn = "clear_user_settings" ->
         [S |-> S, U |-> clear_user_settings_mem(U, c.key, c.uid),
          save |-> IF has_user_record(U, c.key, c.uid) THEN "user" ELSE "none"]
    [] c.fn = "add_mirror_pair" ->
         [S |-> add_mirror_pair_mem(S, cfg, c.key, c.source, c.target), U |-> U,
          save |-> "settings"]
    [] c.fn = "remove_mirror_pair" ->
         IF c.key \notin DOMAIN S
         THEN [S |-> S, U |-> U, save |-> "none"]
         ELSE [S |-> remove_mirror_pair_mem(S, c.key, c.source, c.target), U |-> U,
               save |-> "settings"]
    [] c.fn = "set_auto_channel" ->
         [S |-> set_auto_channel_mem(S, cfg, c.key, c.channel_id, c.enabled),
          U |-> U, save |-> "settings"]

\* A GuildSettings built by get_settings holds the stored list objects, not
\* copies: pairs.append and channels.append/remove change them in place and
\* every frame holding them sees it; remove_mirror_pair binds a new list to
\* the stored record and the frames keep the old one.
SeenBy(fr, c, Snew) ==
  IF DOMAIN fr.gs = {} THEN fr
  ELSE IF Key(fr.ev) # c.key THEN fr
  ELSE IF c.fn = "add_mirror_pair" /\ fr.alias
       THEN [fr EXCEPT !.gs.mirror_pairs = Snew[c.key].mirror_pairs]
  ELSE IF c.fn = "set_auto_channel"
       THEN [fr EXCEPT !.gs.auto_translate_channels =
                          Snew[c.key].auto_translate_channels]
  ELSE IF c.fn = "remove_mirror_pair"
       THEN [fr EXCEPT !.alias = FALSE]
  ELSE fr

ChannelsOf(S, key) ==
  IF key \in DOMAIN S /\ "auto_translate_channels" \in DOMAIN S[key]
  THEN S[key].auto_translate_channels ELSE <<>>

\* the history of set_auto_channel calls after the body of c has run on S
Logged(log, c, S) ==
  IF c.fn # "set_auto_channel" THEN log
  ELSE LET entry == [key |-> c.key, channel_id |-> c.channel_id,
                     enabled |-> c.enabled, before |-> ChannelsOf(S, c.key)]
       IN  IF Len(log) < 2 THEN Append(log, entry) ELSE <<log[2], entry>>

\* mutant: the lock is taken without waiting for it to be free
Acquire_without_waiting(t) ==
  /\ task[t].pc = "acquire"
  /\ lock' = t
  /\ task' = [task EXCEPT ![t].pc = "locked"]
  /\ UNCHANGED <<config, settings, user_settings, settings_file, user_file,
                 translator, write_failures, auto_calls>>

\* async with self._lock: the lock is taken when it is free
Acquire(t) ==
  /\ task[t].pc = "acquire"
  /\ lock = 0
  /\ lock' = t
  /\ task' = [task EXCEPT ![t].pc = "locked"]
  /\ UNCHANGED <<config, settings, user_settings, settings_file, user_file,
                 translator, write_failures, auto_calls>>

\* the in-memory part of the operation's body
Mutate(t) ==
  /\ task[t].pc = "locked"
  /\ LET c == task[t].call
         eff == Effect(c, settings, user_settings, config)
     IN  /\ settings' = eff.S
         /\ user_settings' = eff.U
         /\ task' = [x \in DOMAIN task |->
                       IF x = t
                       THEN [task[t] EXCEPT
                               !.pc = IF eff.save = "none" THEN "release" ELSE "save",
                               !.call = c @@ [save |-> eff.save]]
                       ELSE SeenBy(task[x], c, eff.S)]
  /\ auto_calls' = Logged(auto_calls, task[t].call, settings)
  /\ UNCHANGED <<config, settings_file, user_file, lock, translator, write_failures>>

\* _save / _save_user_settings: open(path, "w") and json.dump of the whole
\* table. "ok": written; "unwritten": open raised, the file is as it was;
\* "truncated": open emptied the file and the dump raised.
\* `failed` records that the last write of the file raised.
SaveOutcomes(failing) ==
  IF failing /\ write_failures < MaxWriteFailures
  THEN {"ok", "unwritten", "truncated"} ELSE {"ok"}

Written(file, table, outcome) ==
  CASE outcome = "ok" -> [valid |-> TRUE, data |-> table, failed |-> FALSE]
    [] outcome = "unwritten" -> [file EXCEPT !.failed = TRUE]
    [] outcome = "truncated" -> [valid |-> FALSE, data |-> EmptyDict, failed |-> TRUE]

\* mutant: a failed write puts the in-memory table back to the file's content
Save_rolls_back(t, failing) ==
  /\ task[t].pc = "save"
  /\ \E outcome \in SaveOutcomes(failing) :
       /\ IF task[t].call.save = "settings"
          THEN /\ settings_file' = Written(settings_file, settings, outcome)
               /\ settings' = IF outcome = "ok" THEN settings ELSE settings_file.data
               /\ UNCHANGED <<user_file, user_settings>>
          ELSE /\ user_file' = Written(user_file, user_settings, outcome)
               /\ user_settings' = IF outcome = "ok" THEN user_settings
                                   ELSE user_file.data
               /\ UNCHANGED <<settings_file, settings>>
       /\ write_failures' = IF outcome = "ok" THEN write_failures
                            ELSE write_failures + 1
       /\ task' = [task EXCEPT ![t].pc = "release",
                               ![t].raised = IF outcome = "ok" THEN "" ELSE "OSError"]
  /\ UNCHANGED <<config, lock, translator, auto_calls>>

\* the durable write that ends the body of a mutating operation; a failure
\* raises OSError out of the operation and leaves the tables as they are
Save(t, failing) ==
  /\ task[t].pc = "save"
  /\ \E outcome \in SaveOutcomes(failing) :
       /\ IF task[t].call.save = "settings"
          THEN /\ settings_file' = Written(settings_file, settings, outcome)
               /\ UNCHANGED user_file
          ELSE /\ user_file' = Written(user_file, user_settings, outcome)
               /\ UNCHANGED settings_file
       /\ write_failures' = IF outcome = "ok" THEN write_failures
                            ELSE write_failures + 1
       /\ task' = [task EXCEPT ![t].pc = "release",
                               ![t].raised = IF outcome = "ok" THEN "" ELSE "OSError"]
  /\ UNCHANGED <<config, settings, user_settings, lock, translator, auto_calls>>

\* the frame of the caller when operation fr.call returns: the value it
\* returns is bound and the handler goes on at fr.call.ret; an exception
\* raised in the body ends the handler (no handler catches it)
Returned(fr, S, U, cfg) ==
  LET c == fr.call
      next == IF c.ret = "confirm" THEN Reply(fr, "confirmed")
              ELSE [fr EXCEPT !.pc = c.ret]
  IN  IF fr.raised # "" THEN Finish(fr)
      ELSE IF c.fn = "get_settings"
           THEN LET r == get_settings_return(S, cfg, c.key)
                IN  IF r.ok
                    THEN [next EXCEPT !.gs = r.value,
                                      !.alias = "mirror_pairs" \in DOMAIN S[c.key]]
                    ELSE Raise(fr, r.value)
      ELSE IF c.fn = "get_user_settings"
           THEN [next EXCEPT !.us = get_user_settings_return(U, c.key, c.uid)]
      ELSE next

\* mutant: an exception raised in the body leaves the lock held
Release_unless_raised(t) ==
  /\ task[t].pc = "release"
  /\ lock' = IF task[t].raised # "" THEN lock ELSE 0
  /\ task' = [task EXCEPT ![t] = Returned(task[t], settings, user_settings, config)]
  /\ UNCHANGED <<config, settings, user_settings, settings_file, user_file,
                 translator, write_failures, auto_calls>>

\* leaving `async with self._lock`
Release(t) ==
  /\ task[t].pc = "release"
  /\ lock' = 0
  /\ task' = [task EXCEPT ![t] = Returned(task[t], settings, user_settings, config)]
  /\ UNCHANGED <<config, settings, user_settings, settings_file, user_file,
                 translator, write_failures, auto_calls>>

-----------------------------------------------------------------------------
(* The steps of the handlers *)

\* TranslateBot.setup_hook: discord.py runs it before any event is dispatched
setup_hook ==
  /\ ~translator
  /\ translator' = TRUE
  /\ UNCHANGED <<config, settings, user_settings, settings_file, user_file, lock,
                 write_failures, auto_calls, task>>

\* The process ends and starts again: load_config reads config.json
\* (user_config), SettingsManager._load reads the two data files, the tasks
\* of the old process are gone. A data file that does not parse makes
\* json.load raise and the start fails.
Restart(user_configs) ==
  /\ settings_file.valid /\ user_file.valid
  /\ \E uc \in user_configs : config' = load_config(uc)
  /\ settings' = settings_file.data
  /\ user_settings' = user_file.data
  /\ lock' = 0
  /\ translator' = FALSE
  /\ task' = [t \in DOMAIN task |-> Frame(NoEvent)]
  /\ UNCHANGED <<settings_file, user_file, write_failures, auto_calls>>

StoredPairs(g) ==
  IF str(g) \in DOMAIN settings /\ "mirror_pairs" \in DOMAIN settings[str(g)]
  THEN settings[str(g)].mirror_pairs ELSE <<>>

\* an event arrives and a task runs its handler up to the first await
Start(t, events) ==
  /\ translator
  /\ task[t].pc \in {"idle", "done"}
  /\ \E e \in events :
       /\ e.kind = "set_mirror" =>
            \/ Len(StoredPairs(e.guild)) < MaxPairs
            \/ HasPair(StoredPairs(e.guild), e.args.source_channel,
                       e.args.target_channel)
       /\ task' = [task EXCEPT ![t] = Handle(e)]
  /\ UNCHANGED <<config, settings, user_settings, settings_file, user_file, lock,
                 translator, write_failures, auto_calls>>

\* await interaction.response.send_message(...)
Respond(t) ==
  /\ task[t].pc = "respond"
  /\ task' = [task EXCEPT ![t] = Finish([task[t] EXCEPT !.replies = @ + 1])]
  /\ UNCHANGED <<config, settings, user_settings, settings_file, user_file, lock,
                 translator, write_failures, auto_calls>>

\* status, line 734
status_user(t) ==
  /\ task[t].pc = "status_user"
  /\ task' = [task EXCEPT ![t] =
       Call(task[t], [fn |-> "get_user_settings", key |-> Key(task[t].ev),
                      uid |-> str(task[t].ev.user)], "status_build")]
  /\ UNCHANGED <<config, settings, user_settings, settings_file, user_file, lock,
                 translator, write_failures, auto_calls>>

\* status, lines 735-756: settings.use_embeds is no attribute of GuildSettings
status_build(t) ==
  /\ task[t].pc = "status_build"
  /\ task' = [task EXCEPT ![t] = Raise(task[t], "AttributeError")]
  /\ UNCHANGED <<config, settings, user_settings, settings_file, user_file, lock,
                 translator, write_failures, auto_calls>>

\* translate_command, line 504
translate_user(t) ==
  /\ task[t].pc = "translate_user"
  /\ task' = [task EXCEPT ![t] =
       Call(task[t], [fn |-> "get_user_settings", key |-> Key(task[t].ev),
                      uid |-> str(task[t].ev.user)], "translate_build")]
  /\ UNCHANGED <<config, settings, user_settings, settings_file, user_file, lock,
                 translator, write_failures, auto_calls>>

\* translate_command, lines 505-515: the argument use_embeds=settings.use_embeds
\* reads an attribute GuildSettings does not have; the rest of the handler
\* (lines 516-530) is never reached
translate_build(t) ==
  /\ task[t].pc = "translate_build"
  /\ task' = [task EXCEPT ![t] = Raise(task[t], "AttributeError")]
  /\ UNCHANGED <<config, settings, user_settings, settings_file, user_file, lock,
                 translator, write_failures, auto_calls>>

\* on_message, line 444
om_user(t) ==
  /\ task[t].pc = "om_user"
  /\ task' = [task EXCEPT ![t] =
       Call(task[t], [fn |-> "get_user_settings", key |-> Key(task[t].ev),
                      uid |-> str(task[t].ev.user)], "om_dispatch")]
  /\ UNCHANGED <<config, settings, user_settings, settings_file, user_file, lock,
                 translator, write_failures, auto_calls>>

\* what langdetect may answer for a text
Detections == {None, Some(S_zh), Some(S_fr)}

\* the frame with the languages resolved for its message
Resolved(fr, found) ==
  LET r == resolve_languages(fr.gs, fr.us, fr.ev.content, config, found)
  IN  [fr EXCEPT !.source = r.source, !.target = r.target,
                 !.detects = @ + (IF r.called THEN 1 ELSE 0)]

\* mutant: `in` where the code has `not in`
auto_channel_excluded_if_listed(fr) ==
  /\ fr.gs.auto_translate_channels # <<>>
  /\ InList(fr.ev.channel, fr.gs.auto_translate_channels)

\* on_message, line 446: the channel list is not empty and the message's
\* channel is not in it
auto_channel_excluded(fr) ==
  /\ fr.gs.auto_translate_channels # <<>>
  /\ ~InList(fr.ev.channel, fr.gs.auto_translate_channels)

\* on_message, lines 445-450 and 468-470: the dispatch on settings.mode
om_dispatch(t) ==
  /\ task[t].pc = "om_dispatch"
  /\ \E found \in Detections :
       LET fr == task[t] IN
       task' = [task EXCEPT ![t] =
         IF fr.gs.mode = "auto"
         THEN IF auto_channel_excluded(fr)
              THEN Finish(fr)
              ELSE IF ~translator THEN Finish(Resolved(fr, found))
              ELSE [Resolved(fr, found) EXCEPT !.pc = "om_auto_translate"]
         ELSE IF fr.gs.mode = "mirror"
         THEN IF ~translator THEN Finish(fr)
              ELSE [fr EXCEPT !.pc = "om_mirror_loop", !.i = 1]
         ELSE Finish(fr)]
  /\ UNCHANGED <<config, settings, user_settings, settings_file, user_file, lock,
                 translator, write_failures, auto_calls>>

\* the other handlers whose translation is already in a channel
PostedBefore(t) == {u \in DOMAIN task \ {t} : task[u].posted # <<>>}

\* bot.translator.translate(...) was called and returned (ok) or raised
Translated(fr, ok) ==
  [fr EXCEPT !.translations = @ + 1,
             !.translate_errors = @ + (IF ok THEN 0 ELSE 1)]

\* on_message, lines 453-454: except Exception: return
auto_translate_failed(fr) == Finish(fr)

\* on_message, lines 451-454: await bot.translator.translate(...)
om_auto_translate(t) ==
  /\ task[t].pc = "om_auto_translate"
  /\ \E ok \in BOOLEAN :
       task' = [task EXCEPT ![t] =
         IF ok THEN [Translated(task[t], ok) EXCEPT !.pc = "om_auto_send"]
         ELSE auto_translate_failed(Translated(task[t], ok))]
  /\ UNCHANGED <<config, settings, user_settings, settings_file, user_file, lock,
                 translator, write_failures, auto_calls>>

NetOutcomes == {"ok", "Forbidden", "error"}

\* mutant: a translation is sent only when no handler of an earlier message
\* of the channel (a lower task) is still translating or sending
om_auto_send_in_arrival_order(t) ==
  /\ task[t].pc = "om_auto_send"
  /\ \A u \in DOMAIN task :
       (u < t /\ task[u].ev.kind = "message"
          /\ task[u].ev.channel = task[t].ev.channel) =>
         task[u].pc \notin {"om_auto_translate", "om_auto_send"}
  /\ \E is_text \in BOOLEAN, net \in NetOutcomes :
       LET fr == task[t]
           sent == send_translation(fr.gs.display_mode, is_text, net)
       IN  task' = [task EXCEPT ![t] =
             IF sent = "raised" THEN Raise(fr, "DiscordException")
             ELSE IF sent = "posted"
             THEN [fr EXCEPT !.pc = "om_delete",
                             !.posted = Append(@, fr.ev.channel),
                             !.posted_after = PostedBefore(t)]
             ELSE [fr EXCEPT !.pc = "om_delete"]]
  /\ UNCHANGED <<config, settings, user_settings, settings_file, user_file, lock,
                 translator, write_failures, auto_calls>>

\* on_message, lines 455-463: await send_translation(channel=message.channel, ...)
om_auto_send(t) ==
  /\ task[t].pc = "om_auto_send"
  /\ \E is_text \in BOOLEAN, net \in NetOutcomes :
       LET fr == task[t]
           sent == send_translation(fr.gs.display_mode, is_text, net)
       IN  task' = [task EXCEPT ![t] =
             IF sent = "raised" THEN Raise(fr, "DiscordException")
             ELSE IF sent = "posted"
             THEN [fr EXCEPT !.pc = "om_delete",
                             !.posted = Append(@, fr.ev.channel),
                             !.posted_after = PostedBefore(t)]
             ELSE [fr EXCEPT !.pc = "om_delete"]]
  /\ UNCHANGED <<config, settings, user_settings, settings_file, user_file, lock,
                 translator, write_failures, auto_calls>>

\* on_message, lines 464-467: await message.delete(), Forbidden swallowed
om_delete(t) ==
  /\ task[t].pc = "om_delete"
  /\ \E net \in NetOutcomes :
       task' = [task EXCEPT ![t] =
         IF net = "ok" THEN Finish([task[t] EXCEPT !.deleted = TRUE])
         ELSE IF net = "Forbidden" THEN Finish(task[t])
         ELSE Raise(task[t], "DiscordException")]
  /\ UNCHANGED <<config, settings, user_settings, settings_file, user_file, lock,
                 translator, write_failures, auto_calls>>

\* mutant: the message's channel is compared with the pair's target
pair_matches_target(fr, pair) == fr.ev.channel = pair.target_channel_id

\* on_message, line 472: the pair's source is the message's channel
pair_matches(fr, pair) == fr.ev.channel = pair.source_channel_id

\* on_message, lines 471-476: one turn of `for pair in settings.mirror_pairs`
\* up to the translate call; present: bot.get_channel found the target
om_mirror_loop(t) ==
  /\ task[t].pc = "om_mirror_loop"
  /\ \E present \in BOOLEAN, found \in Detections :
       LET fr == task[t]
           pairs == fr.gs.mirror_pairs
       IN  task' = [task EXCEPT ![t] =
             IF fr.i > Len(pairs) THEN Finish(fr)
             ELSE IF ~pair_matches(fr, pairs[fr.i])
             THEN [fr EXCEPT !.i = @ + 1]
             ELSE IF ~present THEN [fr EXCEPT !.i = @ + 1]
             ELSE [Resolved(fr, found) EXCEPT !.pc = "om_mirror_translate"]]
  /\ UNCHANGED <<config, settings, user_settings, settings_file, user_file, lock,
                 translator, write_failures, auto_calls>>

\* mutant: `return` where the loop has `continue`
mirror_translate_failed_returns(fr) == Finish(fr)

\* on_message, lines 479-480: except Exception: continue
mirror_translate_failed(fr) == [fr EXCEPT !.pc = "om_mirror_loop", !.i = @ + 1]

\* on_message, lines 477-480: the translate call of one pair
om_mirror_translate(t) ==
  /\ task[t].pc = "om_mirror_translate"
  /\ \E ok \in BOOLEAN :
       task' = [task EXCEPT ![t] =
         IF ok THEN [Translated(task[t], ok) EXCEPT !.pc = "om_mirror_send"]
         ELSE mirror_translate_failed(Translated(task[t], ok))]
  /\ UNCHANGED <<config, settings, user_settings, settings_file, user_file, lock,
                 translator, write_failures, auto_calls>>

\* on_message, lines 481-489: await send_translation(channel=target_channel, ...)
om_mirror_send(t) ==
  /\ task[t].pc = "om_mirror_send"
  /\ \E is_text \in BOOLEAN, net \in NetOutcomes :
       LET fr == task[t]
           sent == send_translation(fr.gs.display_mode, is_text, net)
           to == fr.gs.mirror_pairs[fr.i].target_channel_id
       IN  task' = [task EXCEPT ![t] =
             IF sent = "raised" THEN Raise(fr, "DiscordException")
             ELSE IF sent = "posted"
             THEN [fr EXCEPT !.pc = "om_mirror_loop", !.i = @ + 1,
                             !.posted = Append(@, to),
                             !.posted_after = IF fr.posted = <<>>
                                              THEN PostedBefore(t) ELSE @]
             ELSE [fr EXCEPT !.pc = "om_mirror_loop", !.i = @ + 1]]
  /\ UNCHANGED <<config, settings, user_settings, settings_file, user_file, lock,
                 translator, write_failures, auto_calls>>

-----------------------------------------------------------------------------
(* Specifications *)

\* the state after construction with no data files: SettingsManager._load
\* has written two empty tables; user_config is the content of config.json
InitWith(tasks, user_config) ==
  /\ config = load_config(user_config)
  /\ settings = EmptyDict
  /\ user_settings = EmptyDict
  /\ settings_file = [valid |-> TRUE, data |-> EmptyDict, failed |-> FALSE]
  /\ user_file = [valid |-> TRUE, data |-> EmptyDict, failed |-> FALSE]
  /\ lock = 0
  /\ translator = FALSE
  /\ write_failures = 0
  /\ auto_calls = <<>>
  /\ task = [t \in tasks |-> Frame(NoEvent)]

\* one settings operation, step by step
SettingsStep(t, failing) ==
  \/ Acquire(t)
  \/ Mutate(t)
  \/ Save(t, failing)
  \/ Release(t)

\* on_message after its first await
MessageStep(t) ==
  \/ om_user(t)
  \/ om_dispatch(t)
  \/ om_auto_translate(t)
  \/ om_auto_send(t)
  \/ om_delete(t)
  \/ om_mirror_loop(t)
  \/ om_mirror_translate(t)
  \/ om_mirror_send(t)

Channels == {1, 2}

(* The router: one server, messages in its channels and from outside it,
   and the admin commands that set what the router reads. *)
RouterTasks == {1}

RouterEvents ==
  {Message(g, ch, 1, bot, text) :
     g \in {0, 1}, ch \in Channels, bot \in BOOLEAN, text \in {T_hi, T_nihao}}
  \cup {Command("set_mode", 1, 1, 1, TRUE, [mode |-> m]) : m \in MODES}
  \cup {Command("set_display_mode", 1, 1, 1, TRUE, [mode |-> m]) :
          m \in {S_embed, S_text, S_webhook}}
  \cup {Command("set_mirror", 1, 1, 1, TRUE,
                [source_channel |-> a, target_channel |-> b]) :
          a \in Channels, b \in Channels}

InitRouter == InitWith(RouterTasks, EmptyDict)

NextRouter ==
  \/ setup_hook
  \/ \E t \in RouterTasks :
       \/ Start(t, RouterEvents)
       \/ SettingsStep(t, FALSE)
       \/ MessageStep(t)
       \/ Respond(t)

SpecRouter == InitRouter /\ [][NextRouter]_vars

(* The settings store: one task at a time runs the commands that read and
   write the two tables; a durable write may fail. *)
StoreTasks == {1}

StoreEvents ==
  {Command("set_mode", g, 1, 1, TRUE, [mode |-> "mirror"]) : g \in {1, 2}}
  \cup {Command("status", g, 1, 1, FALSE, EmptyDict) : g \in {1, 2}}
  \cup {Command("set_provider", 1, 1, 1, TRUE, [provider |-> "openai"]),
        Command("set_embeds", 1, 1, 1, TRUE, [enabled |-> TRUE])}
  \cup {Command("set_user_languages", 1, 1, u, FALSE,
                [source |-> S_en, target |-> S_ZH]) : u \in {1, 2}}
  \cup {Command("clear_user_languages", 1, 1, u, FALSE, EmptyDict) : u \in {1, 2}}
  \cup {Command("my_languages", 1, 1, u, FALSE, EmptyDict) : u \in {1, 2}}

\* the steps of the commands after their first await
CommandStep(t) ==
  \/ status_user(t)
  \/ status_build(t)
  \/ Respond(t)

Init == InitWith(StoreTasks, EmptyDict)

Next ==
  \/ setup_hook
  \/ \E t \in StoreTasks :
       \/ Start(t, StoreEvents)
       \/ SettingsStep(t, TRUE)
       \/ CommandStep(t)

Spec == Init /\ [][Next]_vars

(* Concurrent tasks on the settings store. *)
ConcurrentTasks == {1, 2}

ConcurrentEvents ==
  {Command("set_mode", 1, 1, 1, TRUE, [mode |-> "mirror"]),
   Command("set_provider", 1, 1, 1, TRUE, [provider |-> "openai"]),
   Command("set_user_languages", 1, 1, 1, FALSE, [source |-> S_en, target |-> S_ZH]),
   Command("my_languages", 1, 1, 1, FALSE, EmptyDict),
   Command("status", 1, 1, 1, FALSE, EmptyDict)}

InitTasks == InitWith(ConcurrentTasks, EmptyDict)

NextTasks ==
  \/ setup_hook
  \/ \E t \in ConcurrentTasks :
       \/ Start(t, ConcurrentEvents)
       \/ SettingsStep(t, TRUE)
       \/ CommandStep(t)

SpecTasks == InitTasks /\ [][NextTasks]_vars

(* The auto-translate channel list of a server. *)
AutoEvents ==
  {Command("set_auto_channel", g, ch, 1, TRUE, [enabled |-> en]) :
     g \in {1, 2}, ch \in {1, 2, 3}, en \in BOOLEAN}

InitAuto == InitWith(StoreTasks, EmptyDict)

NextAuto ==
  \/ setup_hook
  \/ \E t \in StoreTasks :
       \/ Start(t, AutoEvents)
       \/ SettingsStep(t, FALSE)
       \/ Respond(t)

SpecAuto == InitAuto /\ [][NextAuto]_vars

(* The mirror pairs of two servers. *)
MirrorEvents ==
  {Command(kind, g, 1, 1, TRUE, [source_channel |-> a, target_channel |-> b]) :
     kind \in {"set_mirror", "remove_mirror"}, g \in {1, 2},
     a \in Channels, b \in Channels}

InitMirror == InitWith(StoreTasks, EmptyDict)

NextMirror ==
  \/ setup_hook
  \/ \E t \in StoreTasks :
       \/ Start(t, MirrorEvents)
       \/ SettingsStep(t, FALSE)
       \/ Respond(t)

SpecMirror == InitMirror /\ [][NextMirror]_vars

(* Restarts of the process with another config.json. *)
UserConfigs == {EmptyDict, [default_display_mode |-> S_embed]}

RestartEvents ==
  {Command("set_mode", 1, 1, 1, TRUE, [mode |-> "mirror"]),
   Command("status", 1, 1, 1, FALSE, EmptyDict)}

InitRestart == \E uc \in UserConfigs : InitWith(StoreTasks, uc)

NextRestart ==
  \/ setup_hook
  \/ Restart(UserConfigs)
  \/ \E t \in StoreTasks :
       \/ Start(t, RestartEvents)
       \/ SettingsStep(t, FALSE)
       \/ CommandStep(t)

SpecRestart == InitRestart /\ [][NextRestart]_vars

(* Auto mode and the channel list: one server in its default mode auto,
   messages in its channels and the command that enables and disables
   channels. *)
AutoRouteEvents ==
  {Message(1, ch, 1, FALSE, text) : ch \in {1, 2, 3}, text \in {T_hi, T_nihao}}
  \cup {Command("set_auto_channel", 1, ch, 1, TRUE, [enabled |-> en]) :
          ch \in {1, 2}, en \in BOOLEAN}
  \cup {Command("set_display_mode", 1, 1, 1, TRUE, [mode |-> S_embed]),
        Command("set_languages", 1, 1, 1, TRUE,
                [source |-> S_auto, target |-> S_auto])}

\* on_message in auto mode after its first await
AutoMessageStep(t) ==
  \/ om_user(t)
  \/ om_dispatch(t)
  \/ om_auto_translate(t)
  \/ om_auto_send(t)
  \/ om_delete(t)

InitAutoRoute == InitWith(StoreTasks, EmptyDict)

NextAutoRoute ==
  \/ setup_hook
  \/ \E t \in StoreTasks :
       \/ Start(t, AutoRouteEvents)
       \/ SettingsStep(t, FALSE)
       \/ AutoMessageStep(t)
       \/ Respond(t)

SpecAutoRoute == InitAutoRoute /\ [][NextAutoRoute]_vars

(* Validation: the commands that validate their argument, with values
   inside and outside the enums and the selector grammar. *)
LanguageInputs ==
  {[source |-> S_en, target |-> S_ZH], [source |-> S_english, target |-> S_zh],
   [source |-> S_en, target |-> S_english], [source |-> S_en_nl, target |-> S_zh],
   [source |-> S_auto, target |-> S_popup]}

ValidateEvents ==
  {Command("set_mode", 1, 1, 1, TRUE, [mode |-> m]) : m \in {"mirror", "silent"}}
  \cup {Command("set_provider", 1, 1, 1, TRUE, [provider |-> p]) :
          p \in {"openai", "bing"}}
  \cup {Command("set_display_mode", 1, 1, 1, TRUE, [mode |-> m]) :
          m \in {S_EMBED, S_popup}}
  \cup {Command("set_languages", 1, 1, 1, TRUE, l) : l \in LanguageInputs}
  \cup {Command("set_user_languages", 1, 1, 1, FALSE, l) : l \in LanguageInputs}

InitValidate == InitWith(StoreTasks, EmptyDict)

NextValidate ==
  \/ setup_hook
  \/ \E t \in StoreTasks :
       \/ Start(t, ValidateEvents)
       \/ SettingsStep(t, FALSE)
       \/ Respond(t)

SpecValidate == InitValidate /\ [][NextValidate]_vars

(* The commands of a server and their responses; no write fails. *)
CommandEvents ==
  {Command("set_mode", 1, 1, 1, admin, [mode |-> "mirror"]) : admin \in BOOLEAN}
  \cup {Command("set_provider", 1, 1, 1, TRUE, [provider |-> "openai"]),
        Command("set_languages", 1, 1, 1, TRUE, [source |-> S_en, target |-> S_zh]),
        Command("set_display_mode", 1, 1, 1, TRUE, [mode |-> S_text]),
        Command("set_auto_channel", 1, 1, 1, TRUE, [enabled |-> TRUE]),
        Command("set_mirror", 1, 1, 1, TRUE,
                [source_channel |-> 1, target_channel |-> 2]),
        Command("remove_mirror", 1, 1, 1, TRUE,
                [source_channel |-> 1, target_channel |-> 2]),
        Command("set_user_languages", 1, 1, 1, FALSE,
                [source |-> S_en, target |-> S_zh]),
        Command("clear_user_languages", 1, 1, 1, FALSE, EmptyDict),
        Command("my_languages", 1, 1, 1, FALSE, EmptyDict),
        Command("status", 1, 1, 1, FALSE, EmptyDict),
        Command("translate", 1, 1, 1, FALSE,
                [text |-> T_hi, target |-> None, source |-> None])}

\* translate_command after its first await
TranslateStep(t) ==
  \/ translate_user(t)
  \/ translate_build(t)

InitCommands == InitWith(StoreTasks, EmptyDict)

NextCommands ==
  \/ setup_hook
  \/ \E t \in StoreTasks :
       \/ Start(t, CommandEvents)
       \/ SettingsStep(t, FALSE)
       \/ CommandStep(t)
       \/ TranslateStep(t)

SpecCommands == InitCommands /\ [][NextCommands]_vars

(* Language resolution as a function: every initial state holds one call
   resolve_languages(settings, user_settings, text) with the answer the
   detection capability gives for the text; the one action makes the call. *)
T_mixed == <<104, 105, 22909>>
\* one hiragana letter (U+3042), and the first and the last code point of
\* the range of CJK_RE (U+4E00, U+9FFF)
T_kana == <<12354>>
T_first == <<19968>>
T_last == <<40959>>
ResolveTexts == {T_hi, T_nihao, T_mixed, T_kana, T_first, T_last}

ServerSources == {S_auto, S_en, S_zh, S_fr}
ServerTargets == {S_auto, S_auto_bidir, S_en, S_zh}
UserSources == {None, Some(S_auto), Some(S_zh), Some(S_fr)}
UserTargets == {None, Some(S_auto), Some(S_auto_bidir), Some(S_en)}
ResolveConfigs ==
  {EmptyDict, [fallback_target_language |-> S_fr], [fallback_target_language |-> S_ZH]}

\* the frame of a caller about to resolve the languages of `text`
ResolveCall(cfg, source, target, us, text, found) ==
  [Frame(Message(1, 1, 1, FALSE, text) @@ [found |-> found]) EXCEPT
     !.pc = "resolve",
     !.gs = DictMerge(default_settings(cfg),
                      [source_language |-> source, target_language |-> target]),
     !.us = us]

InitResolve ==
  \E uc \in ResolveConfigs, source \in ServerSources, target \in ServerTargets,
     us \in [source_language : UserSources, target_language : UserTargets],
     text \in ResolveTexts, found \in Detections :
       /\ config = load_config(uc)
       /\ settings = EmptyDict
       /\ user_settings = EmptyDict
       /\ settings_file = [valid |-> TRUE, data |-> EmptyDict, failed |-> FALSE]
       /\ user_file = [valid |-> TRUE, data |-> EmptyDict, failed |-> FALSE]
       /\ lock = 0
       /\ translator = FALSE
       /\ write_failures = 0
       /\ auto_calls = <<>>
       /\ task = [t \in StoreTasks |->
                    ResolveCall(load_config(uc), source, target, us, text, found)]

\* source, target = resolve_languages(settings, user_settings, text)
Resolve(t) ==
  /\ task[t].pc = "resolve"
  /\ task' = [task EXCEPT ![t] =
                [Resolved(task[t], task[t].ev.found) EXCEPT !.pc = "resolved"]]
  /\ UNCHANGED <<config, settings, user_settings, settings_file, user_file, lock,
                 translator, write_failures, auto_calls>>

NextResolve == \E t \in StoreTasks : Resolve(t)

SpecResolve == InitResolve /\ [][NextResolve]_vars

(* Two messages of one server in its default mode auto: the first arrives
   before the second and each is handled by a task of its own. *)
OvertakeEvents ==
  {Message(1, ch, 1, FALSE, text) : ch \in {1, 2}, text \in {T_hi, T_nihao}}

\* the messages arrive in the order of the tasks, one for each
Arrive(t) ==
  /\ task[t].pc = "idle"
  /\ \A u \in ConcurrentTasks : u < t => task[u].pc # "idle"
  /\ Start(t, OvertakeEvents)

InitOvertake == InitWith(ConcurrentTasks, EmptyDict)

NextOvertake ==
  \/ setup_hook
  \/ \E t \in ConcurrentTasks :
       \/ Arrive(t)
       \/ SettingsStep(t, FALSE)
       \/ AutoMessageStep(t)

SpecOvertake == InitOvertake /\ [][NextOvertake]_vars

(* Two tasks that fail: messages whose translation or delivery may raise,
   a command that writes, a command that raises, durable writes that may
   fail. asyncio.Lock wakes its waiters in the order they came, so a task
   that waits for the lock gets it (strong fairness of Acquire); the body of
   an operation and the release are not suspended for ever (weak fairness). *)
FairEvents ==
  {Message(1, 1, 1, FALSE, T_hi),
   Command("set_provider", 1, 1, 1, TRUE, [provider |-> "openai"]),
   Command("status", 1, 1, 1, FALSE, EmptyDict)}

InitFair == InitWith(ConcurrentTasks, EmptyDict)

NextFair ==
  \/ setup_hook
  \/ \E t \in ConcurrentTasks :
       \/ Start(t, FairEvents)
       \/ SettingsStep(t, TRUE)
       \/ CommandStep(t)
       \/ AutoMessageStep(t)

Fairness ==
  \A t \in ConcurrentTasks :
     /\ SF_vars(Acquire(t))
     /\ WF_vars(Mutate(t))
     /\ WF_vars(Save(t, TRUE))
     /\ WF_vars(Release(t))

SpecFair == InitFair /\ [][NextFair]_vars /\ Fairness

(* A message handler and an administrator at the same time: the first task
   handles the messages of channel 1, the second the commands that change
   the server's mode and its mirror pairs. *)
SnapshotMessages == {Message(1, 1, 1, FALSE, T_hi)}

SnapshotCommands ==
  {Command("set_mode", 1, 1, 1, TRUE, [mode |-> "mirror"])}
  \cup {Command("set_mirror", 1, 1, 1, TRUE,
                 [source_channel |-> 1, target_channel |-> ch]) : ch \in {2, 3}}

InitSnapshot == InitWith(ConcurrentTasks, EmptyDict)

NextSnapshot ==
  \/ setup_hook
  \/ Start(1, SnapshotMessages)
  \/ Start(2, SnapshotCommands)
  \/ MessageStep(1)
  \/ Respond(2)
  \/ \E t \in ConcurrentTasks : SettingsStep(t, FALSE)

SpecSnapshot == InitSnapshot /\ [][NextSnapshot]_vars

(* Validation of one selector: is_valid_language applied to every string over
   a small alphabet up to a length, and to longer strings of each shape. *)
MaxCodeLen == 3

\* a lower-case letter, an upper-case letter, the hyphen, the newline
CodeAlphabet == {97, 90, 45, 10}

S_Auto == <<65, 117, 116, 111>>
S_en_us == <<101, 110, 45, 117, 115>>
S_eng_us == <<101, 110, 103, 45, 117, 115>>
S_en_us_nl == <<101, 110, 45, 117, 115, 10>>
S_EN_us_x == <<69, 78, 45, 117, 115, 45, 120>>
S_en_u == <<101, 110, 45, 117>>
S_engl == <<101, 110, 103, 108>>
S_auto_nl == <<97, 117, 116, 111, 10>>
S_nl_en == <<10, 101, 110>>

Codes ==
  UNION {[1..k -> CodeAlphabet] : k \in 0..MaxCodeLen}
  \cup {S_auto, S_auto_bidir, S_Auto, S_auto_nl, S_en, S_ZH, S_en_nl, S_nl_en,
         S_english, S_engl, S_en_us, S_eng_us, S_en_us_nl, S_en_u, S_EN_us_x}

\* the frame of a caller about to validate `code`
ValidateCall(code) ==
  [Frame([kind |-> "is_valid_language", code |-> code]) EXCEPT !.pc = "validate"]

InitLanguage ==
  \E code \in Codes :
     /\ config = load_config(EmptyDict)
     /\ settings = EmptyDict
     /\ user_settings = EmptyDict
     /\ settings_file = [valid |-> TRUE, data |-> EmptyDict, failed |-> FALSE]
     /\ user_file = [valid |-> TRUE, data |-> EmptyDict, failed |-> FALSE]
     /\ lock = 0
     /\ translator = FALSE
     /\ write_failures = 0
     /\ auto_calls = <<>>
     /\ task = [t \in StoreTasks |-> ValidateCall(code)]

\* is_valid_language(code)
Validate(t) ==
  /\ task[t].pc = "validate"
  /\ task' = [task EXCEPT
                ![t].pc = "validated",
                ![t].reply = IF is_valid_language(task[t].ev.code)
                             THEN "valid" ELSE "invalid"]
  /\ UNCHANGED <<config, settings, user_settings, settings_file, user_file, lock,
                 translator, write_failures, auto_calls>>

NextLanguage == \E t \in StoreTasks : Validate(t)

SpecLanguage == InitLanguage /\ [][NextLanguage]_vars

-----------------------------------------------------------------------------
(* Claims about the router (SpecRouter) *)

\* C1: in AUTO mode the original message is deleted only after its
\* translation was actually posted: a handled message that has been deleted
\* has a posted translation, whatever the display mode.
C1_DeleteOnlyAfterDelivery ==
  \A t \in DOMAIN task :
     (task[t].ev.kind = "message" /\ task[t].deleted) => task[t].posted # <<>>

\* a later pair of the loop whose source channel is the message's channel
LaterMatchingPair(fr) ==
  \E j \in (fr.i + 1)..Len(fr.gs.mirror_pairs) :
     fr.gs.mirror_pairs[j].source_channel_id = fr.ev.channel

\* C2: in MIRROR mode a delivery that throws for one pair does not keep the
\* other matching pairs from their delivery: the handler never ends at the
\* delivery of a pair while a later matching pair is still to be served.
C2_DeliveryErrorKeepsOtherPairs ==
  [][\A t \in DOMAIN task :
       (task[t].pc = "om_mirror_send" /\ task'[t].pc = "done")
          => ~LaterMatchingPair(task[t])]_vars

\* C3: a translation error in implicit translation is recovered in
\* on_message: nothing is raised; in AUTO mode the handler ends with nothing
\* posted and nothing deleted; in MIRROR mode nothing is posted for the pair
\* and the loop goes on with the next pair.
C3_TranslateErrorRecovered ==
  [][\A t \in DOMAIN task :
       LET a == task[t]
           b == task'[t]
       IN  b.translate_errors > a.translate_errors =>
             /\ b.raised = ""
             /\ b.posted = a.posted
             /\ b.deleted = a.deleted
             /\ a.pc = "om_auto_translate" =>
                  (b.pc = "done" /\ b.posted = <<>> /\ ~b.deleted)
             /\ a.pc = "om_mirror_translate" =>
                  (b.pc = "om_mirror_loop" /\ b.i = a.i + 1 /\ b.gs = a.gs)]_vars

\* C3, witness: after a failed translation of one pair the loop stands at a
\* further pair of the message's channel
C3_Witness ==
  \E t \in DOMAIN task :
     /\ task[t].pc = "om_mirror_loop"
     /\ task[t].translate_errors > 0
     /\ task[t].i <= Len(task[t].gs.mirror_pairs)
     /\ task[t].gs.mirror_pairs[task[t].i].source_channel_id = task[t].ev.channel

-----------------------------------------------------------------------------
(* Claims about the settings store *)

\* C4: getServerConfig never fails on the shape of the stored record and
\* returns exactly the seven ServerConfig fields: no handler ends with the
\* TypeError of GuildSettings(**data), and every GuildSettings read has
\* exactly the seven fields.
C4_GetServerConfigComplete ==
  \A t \in DOMAIN task :
     /\ task[t].raised # "TypeError"
     /\ DOMAIN task[t].gs # {} => DOMAIN task[t].gs = GuildFields

\* the fields no command of RestartEvents sets
NeverSetFields == {"provider", "source_language", "target_language", "display_mode"}

\* C5: a changed default propagates: every field the server never set
\* through an update is returned by getServerConfig with the value of the
\* current defaults.
C5_ChangedDefaultPropagates ==
  \A t \in DOMAIN task :
     DOMAIN task[t].gs # {} =>
        \A f \in NeverSetFields : task[t].gs[f] = default_settings(config)[f]

\* the in-memory tables S, U hold the mutation of operation c
MemHolds(c, S, U) ==
  CASE c.fn = "update_settings" ->
         /\ c.key \in DOMAIN S
         /\ \A k \in DOMAIN c.updates :
               k \in DOMAIN S[c.key] /\ S[c.key][k] = c.updates[k]
    [] c.fn = "update_user_settings" ->
         /\ has_user_record(U, c.key, c.uid)
         /\ \A k \in DOMAIN c.updates :
               k \in DOMAIN U[c.key][c.uid] /\ U[c.key][c.uid][k] = c.updates[k]
    [] c.fn = "get_settings" -> c.key \in DOMAIN S
    [] OTHER -> TRUE

\* C6: a failed durable write is propagated to the caller and rolls nothing
\* back: at the failure and when the exception leaves the operation the
\* in-memory tables are unchanged and hold the mutation, the handler ends
\* with the error and sends no confirmation; the tables change in no other
\* step than the body of an operation; every read that returns, returns
\* what the in-memory table holds (the read of a record that carries
\* use_embeds raises TypeError, which is C4); and every successful write
\* writes the whole in-memory table, earlier unsaved mutations included.
C6_WriteFailureKeepsMutation ==
  [][/\ \A t \in DOMAIN task :
          LET a == task[t]
              b == task'[t]
          IN  /\ (a.pc = "save" /\ b.pc = "release" /\ b.raised = "OSError") =>
                   /\ settings' = settings /\ user_settings' = user_settings
                   /\ MemHolds(a.call, settings', user_settings')
              /\ (a.pc = "release" /\ b.pc # "release" /\ a.raised = "OSError") =>
                   /\ b.pc = "done" /\ b.raised = "OSError" /\ b.replies = 0
                   /\ settings' = settings /\ user_settings' = user_settings
              /\ (a.pc = "save" /\ b.pc = "release" /\ b.raised = "") =>
                   IF a.call.save = "settings"
                   THEN settings_file' = [valid |-> TRUE, data |-> settings,
                                          failed |-> FALSE]
                   ELSE user_file' = [valid |-> TRUE, data |-> user_settings,
                                      failed |-> FALSE]
              /\ (a.pc = "release" /\ b.pc # "release" /\ b.raised = ""
                    /\ a.call.fn = "get_user_settings") =>
                   b.us = get_user_settings_return(user_settings, a.call.key,
                                                   a.call.uid)
              /\ (a.pc = "release" /\ b.pc # "release" /\ b.raised = ""
                    /\ a.call.fn = "get_settings") =>
                   \A f \in DOMAIN settings[a.call.key] \cap GuildFields :
                      b.gs[f] = settings[a.call.key][f]
     /\ (settings' # settings \/ user_settings' # user_settings) =>
          \E t \in DOMAIN task : task[t].pc = "locked" /\ task'[t].pc # "locked"
    ]_vars

\* C6, witness: the write of one task's set_user_languages failed, nothing
\* of it is on disk, and another task's my_languages has read the languages
C6_Witness ==
  \E t1 \in DOMAIN task, t2 \in DOMAIN task :
     /\ task[t1].ev.kind = "set_user_languages"
     /\ task[t1].raised = "OSError"
     /\ user_file.data = EmptyDict
     /\ task[t2].ev.kind = "my_languages"
     /\ task[t2].pc = "respond"
     /\ task[t2].us.source_language = Some(S_en)
     /\ task[t2].us.target_language = Some(S_zh)

InCriticalSection(fr) == fr.pc \in {"locked", "save", "release"}

\* both commands ended with their confirmation
Confirmed(fr, kind) ==
  fr.ev.kind = kind /\ fr.pc = "done" /\ fr.raised = "" /\ fr.replies = 1

\* C7: the settings operations are mutually exclusive: at most one task is
\* inside a critical section and it holds the lock; while a task stands
\* between its in-memory mutation and its durable write no other task is
\* inside; and when a set_mode and a concurrent set_provider of the same
\* server have both been confirmed, the stored record holds both updates.
C7_MutualExclusion ==
  /\ \A t1 \in DOMAIN task, t2 \in DOMAIN task :
        (InCriticalSection(task[t1]) /\ InCriticalSection(task[t2])) => t1 = t2
  /\ \A t \in DOMAIN task : InCriticalSection(task[t]) <=> lock = t
  /\ \A t1 \in DOMAIN task, t2 \in DOMAIN task :
        (Confirmed(task[t1], "set_mode") /\ Confirmed(task[t2], "set_provider")
           /\ Key(task[t1].ev) = Key(task[t2].ev)) =>
           /\ settings[Key(task[t1].ev)].mode = task[t1].ev.args.mode
           /\ settings[Key(task[t1].ev)].provider = task[t2].ev.args.provider

\* C7, witness: one task stands between its mutation and its write while
\* the other waits for the lock with an update of another field
C7_Witness ==
  \E t1 \in DOMAIN task, t2 \in DOMAIN task :
     /\ task[t1].pc = "save" /\ task[t1].ev.kind = "set_mode"
     /\ task[t2].pc = "acquire" /\ task[t2].ev.kind = "set_provider"

\* the last two set_auto_channel calls enabled and then disabled one
\* channel of one server
EnabledThenDisabled ==
  /\ Len(auto_calls) = 2
  /\ auto_calls[1].key = auto_calls[2].key
  /\ auto_calls[1].channel_id = auto_calls[2].channel_id
  /\ auto_calls[1].enabled /\ ~auto_calls[2].enabled

\* C8 as stated: setAutoChannel(ch, true) followed by setAutoChannel(ch,
\* false) leaves the channel list as it was before the two calls, for every
\* prior content.
C8_EnableDisableRestores ==
  EnabledThenDisabled =>
     ChannelsOf(settings, auto_calls[1].key) = auto_calls[1].before

\* C8 as amended: the same when ch was not in the list before the two calls;
\* when it was, the two calls remove it.
C8_EnableDisableRestoresIfAbsent ==
  EnabledThenDisabled =>
     LET before == auto_calls[1].before
         ch == auto_calls[1].channel_id
         now == ChannelsOf(settings, auto_calls[1].key)
     IN  IF InList(ch, before) THEN now = ListRemove(before, ch) ELSE now = before

\* C8, witness: a channel was enabled and disabled on a server that had
\* other channels enabled and not this one
C8_Witness ==
  /\ EnabledThenDisabled
  /\ auto_calls[1].before # <<>>
  /\ ~InList(auto_calls[1].channel_id, auto_calls[1].before)

NoDuplicatePair(pairs) ==
  \A i \in 1..Len(pairs), j \in 1..Len(pairs) : pairs[i] = pairs[j] => i = j

PairsOf(S, key) ==
  IF key \in DOMAIN S /\ "mirror_pairs" \in DOMAIN S[key]
  THEN S[key].mirror_pairs ELSE <<>>

\* C9: after every step the stored mirror pairs of every server hold no pair
\* twice, and the body of addMirrorPair leaves the pair stored and leaves
\* the list as it was when the pair was already stored.
C9_MirrorPairsUnique ==
  [][/\ \A key \in DOMAIN settings' : NoDuplicatePair(PairsOf(settings', key))
     /\ \A t \in DOMAIN task :
          LET a == task[t]
              c == a.call
          IN  (a.pc = "locked" /\ task'[t].pc # "locked"
                 /\ c.fn = "add_mirror_pair") =>
                /\ HasPair(PairsOf(settings', c.key), c.source, c.target)
                /\ HasPair(PairsOf(settings, c.key), c.source, c.target) =>
                     PairsOf(settings', c.key) = PairsOf(settings, c.key)
    ]_vars

\* C9, witness: addMirrorPair has run for a pair that was already stored
\* (it is not the last of the list, where a new pair is appended)
C9_Witness ==
  \E t \in DOMAIN task :
     /\ task[t].pc = "save"
     /\ task[t].call.fn = "add_mirror_pair"
     /\ Len(PairsOf(settings, task[t].call.key)) = 2
     /\ PairsOf(settings, task[t].call.key)[1] =
          Pair(task[t].call.source, task[t].call.target)

\* C10: the body of clearUserOverride(server, user) leaves the tables such
\* that getUserOverride(server, user) returns both fields absent, as for a
\* user who never set an override; with no record it changes no table and
\* writes nothing; every other user's override and the server table are
\* unchanged.
C10_ClearUserOverride ==
  [][\A t \in DOMAIN task :
       LET a == task[t]
           c == a.call
       IN  (a.pc = "locked" /\ task'[t].pc # "locked"
              /\ c.fn = "clear_user_settings") =>
             /\ get_user_settings_return(user_settings', c.key, c.uid)
                  = get_user_settings_return(EmptyDict, c.key, c.uid)
             /\ get_user_settings_return(user_settings', c.key, c.uid)
                  = [source_language |-> None, target_language |-> None]
             /\ ~has_user_record(user_settings, c.key, c.uid) =>
                  (user_settings' = user_settings /\ task'[t].pc = "release")
             /\ settings' = settings
             /\ settings_file' = settings_file /\ user_file' = user_file
             /\ \A g \in {1, 2}, u \in {1, 2} :
                  (str(g) # c.key \/ str(u) # c.uid) =>
                    /\ has_user_record(user_settings', str(g), str(u))
                         = has_user_record(user_settings, str(g), str(u))
                    /\ get_user_settings_return(user_settings', str(g), str(u))
                         = get_user_settings_return(user_settings, str(g), str(u))
    ]_vars

\* C10, witness: the override of one user has been cleared while the other
\* user of the server keeps one
C10_Witness ==
  \E t \in DOMAIN task :
     /\ task[t].pc = "save"
     /\ task[t].call.fn = "clear_user_settings"
     /\ ~has_user_record(user_settings, task[t].call.key, task[t].call.uid)
     /\ \E u \in {1, 2} : has_user_record(user_settings, task[t].call.key, str(u))

-----------------------------------------------------------------------------
(* Claims about language resolution (SpecResolve) *)

NoOverride == [source_language |-> None, target_language |-> None]

\* the server config with the fields of the user override that are present
\* in place of the server's
Overridden(gs, us) ==
  [gs EXCEPT
     !.source_language = IF us.source_language # None
                         THEN us.source_language[1] ELSE @,
     !.target_language = IF us.target_language # None
                         THEN us.target_language[1] ELSE @]

\* C11: a user override takes precedence field by field: the pair resolved
\* with a user override is the pair resolved without override from the
\* server config in which each present user selector replaces the server's
\* and each absent one leaves the server's.
C11_UserOverridePrecedence ==
  \A t \in DOMAIN task :
     task[t].pc = "resolved" =>
        LET fr == task[t]
            r == resolve_languages(Overridden(fr.gs, fr.us), NoOverride,
                                   fr.ev.content, config, fr.ev.found)
        IN  fr.source = r.source /\ fr.target = r.target

\* C11, witness: resolved with a user source that differs from the server's
\* and no user target
C11_Witness ==
  \E t \in DOMAIN task :
     /\ task[t].pc = "resolved"
     /\ task[t].us.source_language = Some(S_fr)
     /\ task[t].us.target_language = None
     /\ task[t].gs.source_language = S_en
     /\ task[t].gs.target_language = S_zh
     /\ task[t].source = S_fr /\ task[t].target = S_zh

-----------------------------------------------------------------------------
(* Claims about the router, continued *)

IgnoredMessage(e) == e.kind = "message" /\ (e.bot \/ e.guild = 0)

\* C12: a message of a bot or from outside a server is ignored before the
\* dispatch on the mode: its handler has ended at once without an operation
\* of the settings store, a detection, a translation, a delivery or a
\* deletion, and the step that handles it changes no table and no file.
C12_IgnoredBeforeDispatch ==
  [][\A t \in DOMAIN task :
       LET b == task'[t]
       IN  IgnoredMessage(b.ev) =>
             /\ b.pc = "done" /\ b.call = NoCall /\ b.raised = ""
             /\ b.gs = EmptyDict /\ b.us = EmptyDict
             /\ b.detects = 0 /\ b.translations = 0
             /\ b.posted = <<>> /\ ~b.deleted
             /\ b # task[t] =>
                  /\ settings' = settings /\ user_settings' = user_settings
                  /\ settings_file' = settings_file /\ user_file' = user_file
    ]_vars

\* C12, witness: the message of a bot in a channel of a server whose stored
\* mode is auto has been handled
C12_Witness ==
  \E t \in DOMAIN task :
     /\ IgnoredMessage(task[t].ev)
     /\ task[t].ev.bot /\ task[t].ev.guild = 1
     /\ task[t].pc = "done"
     /\ str(1) \in DOMAIN settings
     /\ settings[str(1)].mode = "auto"


\* the stored channel list makes the message of frame fr eligible
EligibleChannel(fr) ==
  LET channels == ChannelsOf(settings, Key(fr.ev))
  IN  channels = <<>> \/ InList(fr.ev.channel, channels)

\* C13: in AUTO mode a message is translated iff the server's stored channel
\* list is empty or holds the message's channel: the dispatch of an eligible
\* message goes on to the translate call, which is made; the dispatch of any
\* other message ends its handling with no detection, translation, delivery
\* or deletion; and a translate call is made for eligible messages only.
C13_AutoChannelEligibility ==
  [][\A t \in DOMAIN task :
       LET a == task[t]
           b == task'[t]
       IN  /\ (a.pc = "om_dispatch" /\ b.pc # "om_dispatch" /\ a.gs.mode = "auto") =>
                IF EligibleChannel(a)
                THEN b.pc = "om_auto_translate"
                ELSE /\ b.pc = "done" /\ b.raised = ""
                     /\ b.detects = 0 /\ b.translations = 0
                     /\ b.posted = <<>> /\ ~b.deleted
           /\ (a.pc = "om_auto_translate" /\ b.pc # "om_auto_translate") =>
                b.translations = 1
           /\ (a.ev.kind = "message" /\ b.ev = a.ev
                 /\ DOMAIN a.gs # {} /\ a.gs.mode = "auto"
                 /\ b.translations > a.translations) => EligibleChannel(a)
    ]_vars

\* C13, witness: a message in a channel that is not in the server's
\* non-empty list has been handled and nothing was done for it
C13_Witness ==
  \E t \in DOMAIN task :
     /\ task[t].ev.kind = "message"
     /\ task[t].pc = "done"
     /\ ChannelsOf(settings, Key(task[t].ev)) = <<1, 2>>
     /\ task[t].ev.channel = 3
     /\ task[t].translations = 0 /\ task[t].posted = <<>>


\* the message of frame fr is handled (not ignored) and its server's record
\* is stored
HandledMessageIn(fr, S) ==
  fr.ev.kind = "message" /\ ~IgnoredMessage(fr.ev) /\ Key(fr.ev) \in DOMAIN S

HandledMessage(fr) == HandledMessageIn(fr, settings)

\* C14: while and after a message in channel c is handled in MIRROR mode,
\* every delivery made for it went to the target of a stored pair with
\* source c, no target got two, and the message is not deleted; a matching
\* pair whose target is found is translated; a translated pair's delivery
\* that does not raise in display mode embed or text posts to the pair's
\* target and the loop goes on with the next pair. In COMMAND mode a message
\* gets no detection, translation, delivery or deletion.
C14_MirrorAndCommandOnly ==
  [][\A t \in DOMAIN task :
       LET a == task[t]
           b == task'[t]
           mode == settings'[Key(b.ev)].mode
       IN  /\ (HandledMessageIn(b, settings') /\ mode = "mirror") =>
                /\ ~b.deleted
                /\ \A k \in 1..Len(b.posted) :
                     /\ HasPair(PairsOf(settings', Key(b.ev)), b.ev.channel,
                                b.posted[k])
                     /\ \A j \in 1..Len(b.posted) : b.posted[j] = b.posted[k] => j = k
           /\ (HandledMessageIn(b, settings') /\ mode = "command") =>
                /\ b.detects = 0 /\ b.translations = 0
                /\ b.posted = <<>> /\ ~b.deleted
           /\ (a.pc = "om_mirror_loop" /\ b # a /\ a.i <= Len(a.gs.mirror_pairs)) =>
                IF a.gs.mirror_pairs[a.i].source_channel_id = a.ev.channel
                THEN b.pc = "om_mirror_translate" \/ (b.pc = "om_mirror_loop" /\ b.i = a.i + 1)
                ELSE b.pc = "om_mirror_loop" /\ b.i = a.i + 1 /\ b.posted = a.posted
           /\ (a.pc = "om_mirror_send" /\ b # a /\ b.raised = ""
                 /\ a.gs.display_mode \in {S_embed, S_text}) =>
                /\ b.posted = Append(a.posted, a.gs.mirror_pairs[a.i].target_channel_id)
                /\ b.pc = "om_mirror_loop" /\ b.i = a.i + 1
    ]_vars

\* C14, witness: a message in a channel with two stored pairs has been
\* handled in mirror mode and both targets got their delivery
C14_Witness ==
  \E t \in DOMAIN task :
     /\ HandledMessage(task[t])
     /\ task[t].pc = "done"
     /\ settings[Key(task[t].ev)].mode = "mirror"
     /\ Len(task[t].posted) = 2
     /\ task[t].posted[1] # task[t].posted[2]


\* C15: language detection runs at most once per inbound message: over the
\* whole handling of a message detect_language is called at most one time.
C15_DetectAtMostOnce ==
  \A t \in DOMAIN task : task[t].ev.kind = "message" => task[t].detects <= 1

-----------------------------------------------------------------------------
(* Claims about language resolution, continued *)

\* the selectors in effect for the call of frame fr
EffectiveSource(fr) == Overridden(fr.gs, fr.us).source_language
EffectiveTarget(fr) == Overridden(fr.gs, fr.us).target_language

\* the text holds a code point of the block CJK Unified Ideographs
HasCJK(text) == \E i \in 1..Len(text) : 19968 <= text[i] /\ text[i] <= 40959

\* the language detected for the call of frame fr: detection runs when a
\* selector in effect is 'auto'
DetectedFor(fr) ==
  IF EffectiveSource(fr) = S_auto \/ EffectiveTarget(fr) = S_auto
  THEN fr.ev.found ELSE None

\* C16: with target selector 'auto-bidir' in effect and no detected language
\* resolve returns (zh, en) for a text with a CJK Unified Ideograph and
\* (en, zh) for a text without; when a language was detected (source
\* selector 'auto' in effect) it is the source and the target is the
\* heuristic's.
C16_BidirHeuristic ==
  \A t \in DOMAIN task :
     LET fr == task[t]
     IN  (fr.pc = "resolved" /\ EffectiveTarget(fr) = S_auto_bidir) =>
            /\ fr.target = IF HasCJK(fr.ev.content) THEN S_en ELSE S_zh
            /\ fr.source = IF DetectedFor(fr) # None THEN DetectedFor(fr)[1]
                           ELSE IF HasCJK(fr.ev.content) THEN S_zh ELSE S_en

\* C16, witness: 'auto-bidir' from the user override, source 'auto' from the
\* server, a text of letters and an ideograph, French detected
C16_Witness ==
  \E t \in DOMAIN task :
     /\ task[t].pc = "resolved"
     /\ task[t].us.target_language = Some(S_auto_bidir)
     /\ task[t].gs.target_language = S_en
     /\ EffectiveSource(task[t]) = S_auto
     /\ task[t].ev.content = T_mixed
     /\ task[t].ev.found = Some(S_fr)
     /\ task[t].source = S_fr /\ task[t].target = S_en


\* C17: with target selector 'auto' in effect resolve returns the configured
\* fallback target language (in lower case, as every selector) as target;
\* the source is the detected language when the source selector in effect
\* is 'auto' and a language was detected, 'auto' when it is 'auto' and none
\* was detected, and the configured source otherwise.
C17_AutoTargetFallback ==
  \A t \in DOMAIN task :
     LET fr == task[t]
     IN  (fr.pc = "resolved" /\ EffectiveTarget(fr) = S_auto) =>
            /\ fr.target = lower(config.fallback_target_language)
            /\ fr.source = IF EffectiveSource(fr) # S_auto THEN EffectiveSource(fr)
                           ELSE IF fr.ev.found # None THEN fr.ev.found[1]
                           ELSE S_auto

\* C17, witness: source 'auto', target 'auto', fallback 'en', French
\* detected: resolved to (fr, en)
C17_Witness ==
  \E t \in DOMAIN task :
     /\ task[t].pc = "resolved"
     /\ task[t].us = NoOverride
     /\ task[t].gs.source_language = S_auto
     /\ task[t].gs.target_language = S_auto
     /\ config.fallback_target_language = S_en
     /\ task[t].ev.found = Some(S_fr)
     /\ task[t].source = S_fr /\ task[t].target = S_en

-----------------------------------------------------------------------------
(* Claims about the router in auto mode (SpecAutoRoute) *)

\* the languages of the message of frame fr are resolved
LanguagesResolved(fr) ==
  fr.pc \in {"om_auto_translate", "om_auto_send", "om_delete",
             "om_mirror_translate", "om_mirror_send"}

\* C18: when the target selector in effect is 'auto', the source selector
\* in effect is 'auto' and nothing was detected (the resolved source is
\* still 'auto'), the router skips the translation: translate is not
\* called and nothing is delivered or deleted.
C18_UnresolvedSourceSkipped ==
  \A t \in DOMAIN task :
     LET fr == task[t]
     IN  (LanguagesResolved(fr) /\ EffectiveTarget(fr) = S_auto
            /\ EffectiveSource(fr) = S_auto /\ fr.source = S_auto) =>
           /\ fr.translations = 0
           /\ fr.posted = <<>> /\ ~fr.deleted

-----------------------------------------------------------------------------
(* Claims about the commands (SpecValidate, SpecCommands) *)

\* the language-selector grammar: 'auto', 'auto-bidir', or two or three
\* lower-case letters, optionally followed by a hyphen and two more
InSelectorGrammar(s) ==
  LET Letters(a, b) == \A i \in a..b : s[i] \in 97..122
  IN  \/ s \in {S_auto, S_auto_bidir}
      \/ Len(s) \in {2, 3} /\ Letters(1, Len(s))
      \/ Len(s) \in {5, 6} /\ Letters(1, Len(s) - 3) /\ s[Len(s) - 2] = 45
           /\ Letters(Len(s) - 1, Len(s))

\* the command carries a value outside its enum or, for the languages, a
\* selector that is outside the grammar even in lower case
InvalidCommand(e) ==
  CASE e.kind = "set_mode" -> e.args.mode \notin {"auto", "mirror", "command"}
    [] e.kind = "set_provider" ->
         e.args.provider \notin {"deepseek", "openai", "google", "gemini"}
    [] e.kind = "set_display_mode" ->
         lower(e.args.mode) \notin {S_embed, S_text, S_webhook}
    [] e.kind \in {"set_languages", "set_user_languages"} ->
         \/ ~InSelectorGrammar(lower(e.args.source))
         \/ ~InSelectorGrammar(lower(e.args.target))
    [] OTHER -> FALSE

Rejections ==
  {"Invalid mode.", "Invalid provider.", "Invalid display mode.", "Invalid languages."}

\* C19: a validation error mutates nothing: while a task handles a command
\* with an invalid value no table and no file changes, the handler calls no
\* settings operation and it answers with a rejection.
C19_ValidationErrorMutatesNothing ==
  [][\A t \in DOMAIN task :
       LET b == task'[t]
       IN  InvalidCommand(b.ev) =>
             /\ settings' = settings /\ user_settings' = user_settings
             /\ settings_file' = settings_file /\ user_file' = user_file
             /\ b.call = NoCall
             /\ b.pc \in {"respond", "done"}
             /\ b.reply \in Rejections
             /\ b.pc = "done" => b.replies = 1
    ]_vars


\* C20: every command invoked in a server ends with exactly one response to
\* the invoker: a handler that has ended has sent one response and has not
\* ended with an exception.
C20_ExactlyOneResponse ==
  \A t \in DOMAIN task :
     (task[t].ev.kind \notin {"none", "message"} /\ task[t].ev.guild # 0
        /\ task[t].pc = "done") =>
       task[t].replies = 1 /\ task[t].raised = ""


\* C21: update_settings changes exactly the named fields of that server's
\* record: they take the given values, every other field of the record keeps
\* its value (its default when the record is new), no field is removed, the
\* records of the other servers and the user table are unchanged; the same
\* holds of update_user_settings on the record of (server, user), with the
\* server table unchanged.
FrameOfUpdate(old, new, updates) ==
  /\ DOMAIN new = (DOMAIN old) \cup (DOMAIN updates)
  /\ \A k \in DOMAIN updates : new[k] = updates[k]
  /\ \A k \in (DOMAIN old) \ (DOMAIN updates) : new[k] = old[k]

OthersKept(old, new, key) ==
  /\ DOMAIN new = (DOMAIN old) \cup {key}
  /\ \A k \in (DOMAIN old) \ {key} : new[k] = old[k]

C21_UpdateFrame ==
  [][\A t \in DOMAIN task :
       LET c == task[t].call IN
       (task[t].pc = "locked" /\ task'[t].pc # "locked") =>
         /\ c.fn = "update_settings" =>
              /\ FrameOfUpdate(DictGet(settings, c.key, default_settings(config)),
                               settings'[c.key], c.updates)
              /\ OthersKept(settings, settings', c.key)
              /\ user_settings' = user_settings
         /\ c.fn = "update_user_settings" =>
              /\ OthersKept(user_settings, user_settings', c.key)
              /\ OthersKept(DictGet(user_settings, c.key, EmptyDict),
                            user_settings'[c.key], c.uid)
              /\ FrameOfUpdate(DictGet(DictGet(user_settings, c.key, EmptyDict),
                                       c.uid, EmptyDict),
                               user_settings'[c.key][c.uid], c.updates)
              /\ settings' = settings]_vars

\* a server record with two fields changed by two updates, next to the
\* record of another server and a user override written by a user update
C21_Witness ==
  /\ str(1) \in DOMAIN settings /\ str(2) \in DOMAIN settings
  /\ settings[str(1)].mode = "mirror"
  /\ settings[str(1)].provider = "openai"
  /\ settings[str(2)].mode = "mirror"
  /\ str(1) \in DOMAIN user_settings
  /\ DOMAIN user_settings[str(1)] = {str(1), str(2)}
  /\ \E t \in DOMAIN task : task[t].pc = "save" /\ task[t].call.fn = "update_settings"


\* C22: is_valid_language accepts a string exactly when, put in lower case as
\* the function does first, it is 'auto', 'auto-bidir' or matches the
\* language-code grammar ^[a-z]{2,3}(-[a-z]{2})?$, and rejects every other
\* string.
C22_AcceptsExactlyGrammar ==
  \A t \in DOMAIN task :
     task[t].pc = "validated" =>
       (task[t].reply = "valid" <=> InSelectorGrammar(lower(task[t].ev.code)))


\* each durable copy whose last write did not fail equals the table in memory
WriteThrough ==
  /\ ~settings_file.failed =>
       settings_file.valid /\ settings_file.data = settings
  /\ ~user_file.failed =>
       user_file.valid /\ user_file.data = user_settings

\* C23: write-through. Whenever no settings operation holds the lock, a
\* table whose last durable write did not fail has a durable copy equal to
\* the table in memory; a get_settings that returns for a server it found
\* unknown has written the materialized default to the file; get_user_settings
\* changes no table and no file.
C23_WriteThroughInvariant ==
  [][/\ lock = 0 => WriteThrough
     /\ lock' = 0 => WriteThrough'
     /\ \A t \in DOMAIN task :
          LET c == task[t].call IN
          /\ (task[t].pc = "release" /\ task'[t].pc # "release"
                /\ c.fn = "get_settings" /\ c.save = "settings"
                /\ task[t].raised = "") =>
               /\ c.key \in DOMAIN settings_file.data
               /\ settings_file.data[c.key] = default_settings(config)
          /\ (task[t].pc \in {"acquire", "locked", "release"}
                /\ task'[t].pc # task[t].pc /\ c.fn = "get_user_settings") =>
               /\ settings' = settings /\ user_settings' = user_settings
               /\ settings_file' = settings_file /\ user_file' = user_file]_vars

\* after a write has failed, later writes have brought both files back to
\* the tables, which hold a server record and a user override
C23_Witness ==
  /\ lock = 0
  /\ write_failures > 0
  /\ ~settings_file.failed /\ ~user_file.failed
  /\ settings # EmptyDict /\ user_settings # EmptyDict
  /\ settings_file.data = settings /\ user_file.data = user_settings
  /\ \E t \in DOMAIN task :
       task[t].pc = "status_user" /\ task[t].call.fn = "get_settings"


\* C24: the handlers of two messages of a channel do not wait for each
\* other: a handler suspended at its translate call or at its delivery can
\* take that step whatever the handler of the other message is doing, so a
\* message that arrived later can have its translation delivered first.
C24_HandlersDoNotWait ==
  \A t \in DOMAIN task :
     /\ task[t].pc = "om_auto_translate" => ENABLED om_auto_translate(t)
     /\ task[t].pc = "om_auto_send" => ENABLED om_auto_send(t)

\* both messages of the channel were translated and delivered, and the
\* translation of the second was in the channel when the first's was posted
C24_Witness ==
  /\ task[1].ev.kind = "message" /\ task[2].ev.kind = "message"
  /\ task[1].ev.channel = task[2].ev.channel
  /\ task[1].translations = 1 /\ task[1].translate_errors = 0
  /\ task[2].translations = 1 /\ task[2].translate_errors = 0
  /\ task[1].posted = <<task[1].ev.channel>>
  /\ task[2].posted = <<task[2].ev.channel>>
  /\ task[1].posted_after = {2}
  /\ task[2].posted_after = {}


\* the task is inside a settings operation: waiting for the lock or in the body
InOperation(t) == task[t].pc \in {"acquire", "locked", "save", "release"}

\* the handler of the task has stopped with an exception
Failed(t) == task[t].pc = "done" /\ task[t].raised # ""

\* C25: a task that fails does not affect the others: a task that has
\* stopped, with an error or without, does not hold the settings lock, the
\* lock is held only by a task in the body of an operation, and under fair
\* scheduling every settings operation a task has started gets the lock and
\* completes, whatever has failed in the other tasks.
C25_FailureLeavesLockFree ==
  /\ [](\A t \in DOMAIN task :
          /\ lock = t => task[t].pc \in {"locked", "save", "release"}
          /\ Failed(t) => lock # t)
  /\ \A t \in ConcurrentTasks : InOperation(t) ~> ~InOperation(t)

\* a task has stopped on a failed durable write inside an operation and the
\* other task, which got the lock after it, has run the body of its own
C25_Witness ==
  \E t, u \in DOMAIN task :
     /\ t # u
     /\ Failed(u) /\ task[u].raised = "OSError"
     /\ lock = t
     /\ task[t].pc = "release" /\ task[t].raised = ""


\* the handler is suspended at a translation or at a delivery
AtTranslateOrSend(fr) ==
  fr.pc \in {"om_auto_translate", "om_auto_send", "om_mirror_translate",
             "om_mirror_send"}

\* C26: the settings a message handler read are a snapshot: when another
\* task runs the body of a settings operation while the handler is suspended
\* at a translation or at a delivery, the mirror pairs, the channel list and
\* the mode the handler uses for its message stay as they were.
C26_SettingsAreSnapshot ==
  [][\A t, u \in DOMAIN task :
       (t # u /\ AtTranslateOrSend(task[t])
          /\ task[u].pc = "locked" /\ task'[u].pc # "locked") =>
         /\ task'[t].gs.mirror_pairs = task[t].gs.mirror_pairs
         /\ task'[t].gs.auto_translate_channels = task[t].gs.auto_translate_channels
         /\ task'[t].gs.mode = task[t].gs.mode]_vars


\* a selector of the grammar, None for an override that is not set
ValidSelector(x) == x = None \/ InSelectorGrammar(x[1])

\* a language code of the grammar, neither 'auto' nor 'auto-bidir'
ConcreteCode(s) == InSelectorGrammar(s) /\ s \notin {S_auto, S_auto_bidir}

\* C27: with the built-in default configuration, whenever the selectors of
\* the server's settings and of the user's override are in the selector
\* grammar, the target that resolve_languages returns, which is the target
\* the router passes to the translator, is a concrete language code, never
\* 'auto' and never 'auto-bidir', whatever the text and the detection.
C27_TargetIsConcrete ==
  \A t \in DOMAIN task :
     (/\ task[t].pc \in {"resolved", "om_auto_translate", "om_mirror_translate"}
      /\ config = DEFAULT_CONFIG
      /\ InSelectorGrammar(task[t].gs.source_language)
      /\ InSelectorGrammar(task[t].gs.target_language)
      /\ ValidSelector(task[t].us.source_language)
      /\ ValidSelector(task[t].us.target_language)) =>
       ConcreteCode(task[t].target)

\* the user's override defers the target ('auto') over a server target that
\* is a code, the detection fails, and the target resolved is the fallback
C27_Witness ==
  \E t \in DOMAIN task :
     /\ task[t].pc = "resolved"
     /\ config = DEFAULT_CONFIG
     /\ task[t].us.target_language = Some(S_auto)
     /\ task[t].gs.target_language = S_zh
     /\ task[t].ev.found = None
     /\ task[t].target = S_en

====
